---- MODULE Spec2Model ----
(***************************************************************************)
(* Model of the self-healing replay engine of PersonalAgentQuests:         *)
(*   - HybridQuestRunner.run / executeStep / executeScriptClick / runAI /  *)
(*     performAIReview / saveQuestLog / trimMessageHistory                 *)
(*   - ScriptManager.getScript / saveScript (both variants in the tree)    *)
(*   - ContextService.applySubstitutions / reverseSubstitutions            *)
(*   - BrowserService.launch / close                                       *)
(* Specifications:                                                         *)
(*   Spec       one execution of HybridQuestRunner.run                     *)
(*   SpecBudget one execution of it, for runners of two step budgets       *)
(*   SpecCancel one execution of it whose client aborts the request       *)
(*   SpecTrim   the agent conversation and trimMessageHistory              *)
(*   SpecStore  the script store under get / save / clock                  *)
(*   SpecCtx    the substitution service on bounded parameter objects      *)
(*   SpecLearn  the selector bookkeeping of one runAI call                 *)
(*   SpecPair   two concurrent runs of one quest on the shared script file *)
(*   SpecVerify BrowserService.verifyElementAtCoordinates (both variants)  *)
(*              and verifyElementAtCoordinatesWithFallback                 *)
(*   SpecKB     KnowledgeBase.learn / getProvenSelectors called by two     *)
(*              runs of one Node process                                   *)
(*   SpecStep   the calls of executeStep for one stored step               *)
(*   SpecTalk   the body of the agent loop: tool results and screenshots   *)
(*              in the conversation                                        *)
(***************************************************************************)
EXTENDS Integers, Sequences, FiniteSets, TLC

VARIABLES
    pc,                 \* position of the run's logical thread in run()
    store,              \* script file of the quest: NoScript or a QuestScript
    now,                \* wall clock (days)
    existingScript,     \* run(): const existingScript
    stepI,              \* run(): replay loop index i (1-based here)
    attempt,            \* executeStep: 1 = first call, 2 = the retry call
    recordedSteps,      \* this.recordedSteps
    scriptStepsExecuted,\* this.scriptStepsExecuted
    scriptFailedIndex,  \* run(): let scriptFailedIndex (0-based, -1 = none)
    maxSteps,           \* this.maxSteps
    browser,            \* BrowserService.browser # null
    page,               \* BrowserService.page # null
    events,             \* result / error / done events given to eventCallback
    lastEvent,          \* type of the last event of any kind given to it
    questLogs,          \* QuestLogManager.saveLog calls (the status of each)
    reviewResult,       \* last result of performAIReview (NoReview before)
    aiRound,            \* how many times runAI was entered
    loopI,              \* runAI: for-loop index i
    remainingSteps,     \* runAI: const remainingSteps
    consecutiveWaitCount,\* runAI: let consecutiveWaitCount
    toolUses,           \* runAI: tool_use blocks of the turn not yet executed
    handoff,            \* the context argument of the first runAI call
    turns,              \* number of LLM turns taken (model bound)
    hist,               \* history: facts about the run used by the properties
    messages,           \* runAI: const messages (SpecTrim)
    trimmed,            \* result of the last trimMessageHistory (SpecTrim)
    nextId,             \* next tool_use id the LLM hands out (SpecTrim)
    lastGet,            \* result of the last ScriptManager.getScript (SpecStore)
    params,             \* parameter object p (SpecCtx)
    context,            \* ContextService.context (SpecCtx)
    applied,            \* applySubstitutions(p) (SpecCtx)
    reversed,           \* reverseSubstitutions(applySubstitutions(p)) (SpecCtx)
    pushed,             \* the step pushed to this.recordedSteps for p (SpecCtx)
    url,                \* this.browserService.page.url() (SpecLearn)
    lastUrl,            \* runAI: let lastUrl (SpecLearn)
    currentUrl,         \* runAI: const currentUrl of the iteration (SpecLearn)
    failedSelectors,    \* runAI: let failedSelectors (SpecLearn)
    kb,                 \* selector-knowledge.json: clean URL -> selectors (SpecLearn)
    loop,               \* runAI: position in the loops (SpecLearn)
    lhist,              \* history of the tool calls of the loop (SpecLearn)
    learner,            \* KnowledgeBase.learn: each run's call in progress (SpecKB)
    thread,             \* the run whose synchronous code holds the Node thread (SpecKB)
    kbh,                \* history of the KnowledgeBase calls (SpecKB)
    abort,              \* the client's AbortController of the request (SpecCancel)
    inst,               \* the fields of each HybridQuestRunner instance (SpecPair)
    pairh,              \* history of two runs of one quest (SpecPair)
    dom,                \* the page at the coordinates of the click (SpecVerify)
    expectedEl,         \* step.expectedElement (SpecVerify)
    checks,             \* results of the verification calls on this page (SpecVerify)
    stepIn,             \* executeStep: the step it is called for (SpecStep)
    calls,              \* the calls of executeStep made for it, in order (SpecStep)
    talk                \* runAI: position and locals of the loop body (SpecTalk)

runVars == <<pc, existingScript, stepI, attempt, recordedSteps,
             scriptStepsExecuted, scriptFailedIndex, maxSteps, browser, page,
             events, lastEvent, questLogs, reviewResult, aiRound, loopI,
             remainingSteps, consecutiveWaitCount, toolUses, handoff, turns,
             hist>>
trimVars == <<messages, trimmed, nextId>>
storeVars == <<store, now, lastGet>>
ctxVars == <<params, context, applied, reversed, pushed>>
learnVars == <<url, lastUrl, currentUrl, failedSelectors, kb, loop, lhist>>
kbVars == <<learner, thread, kbh>>
pairVars == <<inst, pairh>>
verifyVars == <<dom, expectedEl, checks>>
stepVars == <<stepIn, calls>>
restVars == <<kbVars, abort, pairVars, verifyVars, stepVars, talk>>
vars == <<runVars, trimVars, storeVars, ctxVars, learnVars, restVars>>

----------------------------------------------------------------------------
(* Bounds of the model *)
MaxScript == 2          \* longest stored script
MaxTools == 2           \* most tool_use blocks in one assistant turn
MaxTurns == 2           \* most LLM turns of one run
MaxTime == 16           \* last clock value (days)
MaxMsgs == 13           \* longest conversation built
MaxPieces == 3          \* most pieces of one parameter string
MaxCalls == 4           \* most tool calls of one runAI call (SpecLearn)
MaxBatch == 3           \* most tool calls of one assistant turn (SpecLearn)
MaxLearns == 3          \* most KnowledgeBase.learn calls (SpecKB)
MaxPairSteps == 2       \* most steps a run records before its review (SpecPair)
MaxChecks == 2          \* most verification calls made on one page (SpecVerify)
MaxIterations == 3      \* most iterations of the agent loop (SpecTalk)

(* Program constants *)
MESSAGE_HISTORY_WINDOW == 10
MAX_CONSECUTIVE_WAITS == 3
BudgetExtension == 10
BudgetMargin == 5

NoScript == [none |-> TRUE]
NoExpiry == 0 - 1
None == "none"
NoReview == [success |-> None, reason |-> None]
NoHandoff == [entered |-> FALSE, scriptFailed |-> FALSE, failedAt |-> 0,
              stepHistory |-> <<>>]

----------------------------------------------------------------------------
(* Sequences *)
IsPrefix(s, t) == Len(s) <= Len(t) /\ SubSeq(t, 1, Len(s)) = s
Last(s) == s[Len(s)]
SeqsUpTo(S, n) == UNION {[1..k -> S] : k \in 0..n}

----------------------------------------------------------------------------
(* Quest steps.  A step carries the fields the runner reads on replay:      *)
(* type, expectedChange, expectedElement, validation; origin and idx tell   *)
(* where the step came from (a position of the stored script, an agent tool *)
(* call, or the appended Final Wait).                                       *)
Step(type, origin, idx, change, element, validation) ==
    [type |-> type, origin |-> origin, idx |-> idx, expectedChange |-> change,
     expectedElement |-> element, validation |-> validation]

(* The shapes of stored steps the replay code distinguishes. *)
StepShapes ==
    { [type |-> "navigate", expectedChange |-> None, expectedElement |-> FALSE, validation |-> TRUE],
      [type |-> "click", expectedChange |-> "url", expectedElement |-> FALSE, validation |-> FALSE],
      [type |-> "click", expectedChange |-> "dom", expectedElement |-> FALSE, validation |-> FALSE],
      [type |-> "click_at_coordinates", expectedChange |-> "none", expectedElement |-> TRUE, validation |-> FALSE],
      [type |-> "wait", expectedChange |-> None, expectedElement |-> FALSE, validation |-> FALSE] }

ScriptStep(shape, i) ==
    Step(shape.type, "script", i, shape.expectedChange, shape.expectedElement,
         shape.validation)

Script(steps, expiresAt, criteria) ==
    [none |-> FALSE, steps |-> steps, expiresAt |-> expiresAt,
     successCriteria |-> criteria]

StoredSteps ==
    UNION { { [i \in 1..k |-> ScriptStep(f[i], i)] : f \in [1..k -> StepShapes] } :
            k \in 1..MaxScript }

IsWait(type) == type \in {"wait", "random_wait"}
IsClick(type) == type \in {"click", "click_at_coordinates"}

(* The tools the simulated agent calls (a sample of BROWSER_TOOLS). *)
ToolNames == {"click", "wait", "random_wait"}

StepBudget == 3         \* constructor argument maxSteps (model bound)

(* The budgets a runner is constructed with: one the recorded steps reach,  *)
(* and one whose extension margin (maxSteps - 5) lies above an empty        *)
(* history.                                                                 *)
Budgets == {StepBudget, StepBudget + BudgetMargin + 1}

----------------------------------------------------------------------------
(* ScriptManager (src/lib/quests/ScriptManager.ts): the store the runner    *)
(* imports.  getScript returns the parsed file as it is; saveScript writes  *)
(* the object it is given.  Both return [result, store].                    *)
getScript(st, t) == [result |-> st, store |-> st]

(* Mutant of saveScript: the steps are added to the steps of the file. *)
saveScriptMerging(st, script, t) ==
    IF st.none THEN script ELSE [script EXCEPT !.steps = st.steps \o @]

saveScript(st, script, t) == script

(* ScriptManager, expiry variant (src/unnamed/part_004). *)
getScriptExpiring(st, t) ==
    IF st.none THEN [result |-> NoScript, store |-> st]
    ELSE IF st.expiresAt # NoExpiry /\ t > st.expiresAt
         THEN [result |-> NoScript, store |-> NoScript]
         ELSE [result |-> st, store |-> st]

ExpirationDays == 14    \* questDef?.scriptExpirationDays || 14

saveScriptExpiring(st, script, t) == [script EXCEPT !.expiresAt = t + ExpirationDays]

----------------------------------------------------------------------------
(* Events.  eventCallback receives every event; the model keeps the         *)
(* result / error / done events in order and the type of the last event.    *)
Terminal(e) == e \in {"result", "error", "done"}

Emit(evs) ==
    /\ events' = events \o SelectSeq(evs, Terminal)
    /\ lastEvent' = IF evs = <<>> THEN lastEvent ELSE Last(evs)

(* saveQuestLog: one QuestLogManager.saveLog call, then a log event. *)
QuestLog(status) ==
    [status |-> status, stepCount |-> Len(recordedSteps'),
     scriptStepCount |-> scriptStepsExecuted,
     aiStepCount |-> Len(recordedSteps') - scriptStepsExecuted]

saveQuestLog(status) == questLogs' = Append(questLogs, QuestLog(status))

(* Mutant of close: the browser is closed but the page reference is kept. *)
closeKeepsPage ==
    IF browser THEN browser' = FALSE /\ page' = page
    ELSE UNCHANGED <<browser, page>>

(* BrowserService.close *)
close ==
    IF browser THEN browser' = FALSE /\ page' = FALSE
    ELSE UNCHANGED <<browser, page>>

InitHist ==
    [failure |-> None,      \* which failure path the run took
     waitRun |-> 0,         \* wait-type tool calls in a row, up to now
     threeWaits |-> FALSE,  \* MAX_CONSECUTIVE_WAITS wait-type calls in a row happened
     navSeen |-> FALSE,     \* a click of the script step in progress changed the URL
     urlClickNoNav |-> 0,   \* position of a finished url-click step with no URL change
     verdicts |-> 0,        \* performAIReview calls
     answer |-> None,       \* the reviewer's answer in the last of them
     reviews |-> <<>>,      \* whether each review made after runAI passed
     saved |-> FALSE,       \* run() called ScriptManager.saveScript
     errors |-> <<>>,       \* the messages of the error events, in order
     aiSteps |-> 0,         \* tool calls of the agent that were recorded as steps
     mismatchSeen |-> FALSE,\* the first call for the step in progress ended in an element mismatch
     elemMismatch |-> 0,    \* position of a finished step whose two calls ended in an element mismatch
     unverifiedClick |-> FALSE, \* a click was issued in a call whose element check did not match
     criteriaFailed |-> FALSE, \* a global successCriteria validation failed after a complete replay
     budget0 |-> StepBudget, \* maxSteps as the runner was constructed
     extensions |-> 0,      \* how many times maxSteps was raised
     extendedAt |-> 0,      \* recordedSteps.length when it was raised
     closed |-> FALSE]      \* close() ran

RunInitFor(budget) ==
    /\ pc = "start"
    /\ existingScript = NoScript
    /\ stepI = 0 /\ attempt = 0
    /\ recordedSteps = <<>>
    /\ scriptStepsExecuted = 0
    /\ scriptFailedIndex = 0 - 1
    /\ maxSteps = budget
    /\ browser = FALSE /\ page = FALSE
    /\ events = <<>> /\ lastEvent = None
    /\ questLogs = <<>>
    /\ reviewResult = NoReview
    /\ aiRound = 0 /\ loopI = 0 /\ remainingSteps = 0
    /\ consecutiveWaitCount = 0
    /\ toolUses = <<>>
    /\ handoff = NoHandoff
    /\ turns = 0
    /\ hist = [InitHist EXCEPT !.budget0 = budget]

RunInit == RunInitFor(StepBudget)

TrimIdle == messages = <<>> /\ trimmed = <<>> /\ nextId = 1
StoreIdle == now = 0 /\ lastGet = [result |-> NoScript, at |-> 0]
NotCalled == [done |-> FALSE]
CtxIdle ==
    /\ params = <<>> /\ context = <<>>
    /\ applied = NotCalled /\ reversed = NotCalled /\ pushed = NotCalled
LearnIdle ==
    /\ url = <<>> /\ lastUrl = <<>> /\ currentUrl = <<>>
    /\ failedSelectors = <<>> /\ kb = <<>> /\ loop = <<>> /\ lhist = <<>>

KBIdle == learner = <<>> /\ thread = None /\ kbh = <<>>
NotAborted == [raised |-> FALSE, progress |-> 0]
PairIdle == inst = <<>> /\ pairh = <<>>
VerifyIdle == dom = <<>> /\ expectedEl = <<>> /\ checks = <<>>
StepIdle == stepIn = <<>> /\ calls = <<>>
NoTalk == [at |-> None, i |-> 0, uses |-> <<>>, results |-> <<>>, waits |-> 0,
           lastTool |-> None, sentLastTool |-> None]
RestIdle ==
    /\ KBIdle /\ abort = NotAborted /\ PairIdle /\ VerifyIdle /\ StepIdle
    /\ talk = NoTalk

(* The script file at the start of a run: absent, or any stored script. *)
StoredScripts ==
    { Script(st, e, c) : st \in StoredSteps, e \in {NoExpiry}, c \in BOOLEAN }

Init ==
    /\ RunInit /\ TrimIdle /\ StoreIdle /\ CtxIdle /\ LearnIdle /\ RestIdle
    /\ store \in {NoScript} \cup StoredScripts

(* A run of a runner constructed with either budget, on no script or on a   *)
(* stored script of navigate and wait steps.                                *)
BudgetScripts ==
    { sc \in StoredScripts :
        \A i \in DOMAIN sc.steps : sc.steps[i].type \in {"navigate", "wait"} }

InitBudget ==
    /\ \E budget \in Budgets : RunInitFor(budget)
    /\ TrimIdle /\ StoreIdle /\ CtxIdle /\ LearnIdle /\ RestIdle
    /\ store \in {NoScript} \cup BudgetScripts

----------------------------------------------------------------------------
(* run(), up to the replay loop: generateDefaults, getAverageSteps,         *)
(* browserService.launch, ScriptManager.getScript.  launch can throw in     *)
(* chromium.launch (no browser yet) or after it (browser held, no page).    *)
Launch ==
    /\ pc = "start"
    /\ \E outcome \in {"ok", "launchThrows", "newPageThrows"} :
        IF outcome = "ok"
        THEN LET got == getScript(store, now) IN
             /\ browser' = TRUE /\ page' = TRUE
             /\ existingScript' = got.result
             /\ store' = got.store
             /\ IF got.result.none
                THEN pc' = "handoff" /\ UNCHANGED <<stepI, attempt>>
                ELSE pc' = "replay" /\ stepI' = 1 /\ attempt' = 1
             /\ hist' = hist
        ELSE /\ browser' = (outcome = "newPageThrows") /\ page' = FALSE
             /\ pc' = "catch"
             /\ hist' = [hist EXCEPT !.failure = "launch"]
             /\ UNCHANGED <<existingScript, store, stepI, attempt>>
    /\ Emit(<<"log">>)
    /\ UNCHANGED <<recordedSteps, scriptStepsExecuted, scriptFailedIndex,
                   maxSteps, questLogs, reviewResult, aiRound, loopI,
                   remainingSteps, consecutiveWaitCount, toolUses, handoff,
                   turns, now, lastGet>>
    /\ UNCHANGED <<trimVars, ctxVars, learnVars, restVars>>

(* ClickChangeType: what detectChangeType reports after a click. *)
ChangeTypes == {"url", "dom", "none"}

(* Mutant of changeMismatch: a recorded dom change is validated as well. *)
changeMismatchStrict(expectedChange, actualChange) ==
    expectedChange \in {"url", "dom"} /\ actualChange # expectedChange

(* executeScriptClick: if (expectedChange === 'url' && actualChange !==      *)
(* 'url'), the only comparison made of the two.                             *)
changeMismatch(expectedChange, actualChange) ==
    expectedChange = "url" /\ actualChange # "url"

(* Mutant of executeScriptClick: the retry click is not checked. *)
executeScriptClickUnchecked(step, verified, actualChange, nav2) ==
    IF step.expectedElement /\ ~verified
    THEN [ok |-> FALSE, clicks |-> 0, nav |-> FALSE]
    ELSE IF changeMismatch(step.expectedChange, actualChange)
         THEN [ok |-> TRUE, clicks |-> 2, nav |-> nav2]
         ELSE [ok |-> TRUE, clicks |-> 1, nav |-> actualChange = "url"]

(* Mutant of executeScriptClick: a retry click that changed nothing is      *)
(* followed by one more click.                                              *)
executeScriptClickThrice(step, verified, actualChange, nav2) ==
    IF step.expectedElement /\ ~verified
    THEN [ok |-> FALSE, clicks |-> 0, nav |-> FALSE]
    ELSE IF changeMismatch(step.expectedChange, actualChange)
         THEN [ok |-> nav2, clicks |-> IF nav2 THEN 2 ELSE 3, nav |-> nav2]
         ELSE [ok |-> TRUE, clicks |-> 1, nav |-> actualChange = "url"]

(* executeScriptClick: the outcome of one call.  verified: the element      *)
(* check passed (or none was asked for); actualChange: what detectChangeType *)
(* reports after the click; nav2: the retry click changed the URL.          *)
(* Result: [ok, clicks, nav].                                               *)
executeScriptClick(step, verified, actualChange, nav2) ==
    IF step.expectedElement /\ ~verified
    THEN [ok |-> FALSE, clicks |-> 0, nav |-> FALSE]
    ELSE IF changeMismatch(step.expectedChange, actualChange)
         THEN [ok |-> nav2, clicks |-> 2, nav |-> nav2]
         ELSE [ok |-> TRUE, clicks |-> 1, nav |-> actualChange = "url"]

(* Mutant of executeStepOnce: expectedElement is not handed to            *)
(* executeScriptClick, so no element check is made before the click.        *)
executeStepOnceUnverified(step, throws, verified, actualChange, nav2, valid) ==
    LET click == executeScriptClick(step, TRUE, actualChange, nav2) IN
    IF throws /\ ~IsWait(step.type)
    THEN [ok |-> FALSE, clicks |-> 0, nav |-> FALSE]
    ELSE IF IsClick(step.type)
         THEN [click EXCEPT !.ok = click.ok /\ (step.validation => valid)]
         ELSE [ok |-> (step.validation => valid), clicks |-> 0,
               nav |-> (step.type = "navigate" /\ actualChange = "url")]

(* executeStep: the outcome of one call (without its retry).  throws: the   *)
(* browser action itself raised (goto, waitForSelector, fill, ...); valid:  *)
(* the step's post-condition held; for a navigate step actualChange = url   *)
(* says that the page URL changed.                                          *)
executeStepOnce(step, throws, verified, actualChange, nav2, valid) ==
    LET click == executeScriptClick(step, verified, actualChange, nav2) IN
    IF throws /\ ~IsWait(step.type)
    THEN [ok |-> FALSE, clicks |-> 0, nav |-> FALSE]
    ELSE IF IsClick(step.type)
         THEN [click EXCEPT !.ok = click.ok /\ (step.validation => valid)]
         ELSE [ok |-> (step.validation => valid), clicks |-> 0,
               nav |-> (step.type = "navigate" /\ actualChange = "url")]

(* Mutant of retry: the call made from the catch block may retry as well. *)
retryAgain(call) == call <= 2

(* executeStep(step, retry = true): the parameter retry in the call numbered *)
(* call: true in the call made by run(), false in the one executeStep makes *)
(* of itself from its catch block.                                          *)
retry(call) == call = 1

(* Mutant of replayed: the replayed step is not counted. *)
replayedUncounted(count) == count

(* run(): this.scriptStepsExecuted++ after a replayed step. *)
replayed(count) == count + 1

(* The replay loop of run(): one call of executeStep for step i.  A failed  *)
(* first call is followed by the retry call; a failed retry ends the loop   *)
(* with scriptFailedIndex = i; a success records the step and moves on.     *)
(* crash: the wait before the retry (page.waitForTimeout in the catch      *)
(* block of executeStep) raised, which leaves executeStep and the loop.     *)
ExecuteStep ==
    /\ pc = "replay"
    /\ \E throws, verified, nav2, valid, crash \in BOOLEAN,
          actualChange \in ChangeTypes :
        LET step == existingScript.steps[stepI]
            r == executeStepOnce(step, throws, verified, actualChange, nav2, valid)
            nav == (IF attempt = 1 THEN FALSE ELSE hist.navSeen) \/ r.nav
            over == r.ok \/ ~retry(attempt)
            crashed == ~r.ok /\ retry(attempt) /\ crash
            noNav == IF over /\ step.type = "click" /\ step.expectedChange = "url"
                        /\ ~nav /\ hist.urlClickNoNav = 0
                     THEN stepI ELSE hist.urlClickNoNav
            mismatch == step.expectedElement /\ ~verified
                        /\ ~(throws /\ ~IsWait(step.type))
            bothMismatch == attempt = 2 /\ hist.mismatchSeen /\ mismatch
        IN
        /\ hist' = [hist EXCEPT !.navSeen = nav /\ ~over /\ ~crashed,
                                !.urlClickNoNav = noNav,
                                !.mismatchSeen = attempt = 1 /\ mismatch /\ ~crashed,
                                !.elemMismatch = IF bothMismatch /\ @ = 0 THEN stepI ELSE @,
                                !.unverifiedClick = @ \/ (mismatch /\ r.clicks > 0),
                                !.failure = IF crashed THEN "browser" ELSE @]
        /\ IF r.ok
           THEN /\ recordedSteps' = Append(recordedSteps, step)
                /\ scriptStepsExecuted' = replayed(scriptStepsExecuted)
                /\ stepI' = stepI + 1
                /\ attempt' = 1
                /\ pc' = IF stepI = Len(existingScript.steps) THEN "criteria" ELSE "replay"
                /\ Emit(<<"log", "url_update", "screenshot">>)
                /\ UNCHANGED scriptFailedIndex
           ELSE IF crashed
           THEN /\ pc' = "catch"
                /\ Emit(<<"log", "log">>)
                /\ UNCHANGED <<recordedSteps, scriptStepsExecuted, stepI,
                               attempt, scriptFailedIndex>>
           ELSE IF retry(attempt)
           THEN /\ attempt' = attempt + 1
                /\ Emit(<<"log", "log">>)
                /\ UNCHANGED <<recordedSteps, scriptStepsExecuted, stepI, pc,
                               scriptFailedIndex>>
           ELSE /\ scriptFailedIndex' = stepI - 1
                /\ pc' = "handoff"
                /\ Emit(<<"log", "log", "log">>)
                /\ UNCHANGED <<recordedSteps, scriptStepsExecuted, stepI, attempt>>
    /\ UNCHANGED <<existingScript, maxSteps, browser, page, questLogs,
                   reviewResult, aiRound, loopI, remainingSteps,
                   consecutiveWaitCount, toolUses, handoff, turns>>
    /\ UNCHANGED <<trimVars, storeVars, ctxVars, learnVars, restVars>>

(* Mutant of criteriaFailedIndex: the failure is put on the last step. *)
criteriaFailedAtLastStep(script) == Len(script.steps) - 1

(* run(): scriptFailedIndex = existingScript.steps.length (0-based: one     *)
(* past the last step) when a global criterion fails.                       *)
criteriaFailedIndex(script) == Len(script.steps)

(* run(): the global successCriteria after a complete replay.  A failed     *)
(* criterion counts as a failure at the end of the script.                  *)
CheckSuccessCriteria ==
    /\ pc = "criteria"
    /\ \E valid \in BOOLEAN :
        IF existingScript.successCriteria /\ ~valid
        THEN /\ scriptFailedIndex' = criteriaFailedIndex(existingScript)
             /\ pc' = "handoff"
             /\ hist' = [hist EXCEPT !.criteriaFailed = TRUE]
             /\ Emit(<<"log", "log">>)
        ELSE /\ pc' = "scriptReview"
             /\ Emit(<<"log">>)
             /\ UNCHANGED <<scriptFailedIndex, hist>>
    /\ UNCHANGED <<existingScript, stepI, attempt, recordedSteps,
                   scriptStepsExecuted, maxSteps, browser, page, questLogs,
                   reviewResult, aiRound, loopI, remainingSteps,
                   consecutiveWaitCount, toolUses, handoff, turns>>
    /\ UNCHANGED <<trimVars, storeVars, ctxVars, learnVars, restVars>>

(* performAIReview: the review result { success, reason }.  Every failure  *)
(* inside it (no screenshot, the model call throwing, no JSON in the        *)
(* answer, JSON.parse throwing) is returned with success = false; a parsed  *)
(* object gives its own success member, whatever its type.                  *)
(* A reviewer answer: no screenshot could be taken; the model call threw;  *)
(* the text has no {...}; JSON.parse of the match threw; or a JSON object   *)
(* whose success member is true, false, a non-empty string (as in           *)
(* {"success": "false"}) or absent.                                         *)
ReviewAnswers ==
    {"noScreenshot", "throws", "noJson", "badJson",
     "jsonTrue", "jsonFalse", "jsonString", "jsonNoSuccess"}

performAIReview(answer) ==
    CASE answer = "noScreenshot" ->
             [success |-> "false", reason |-> "Failed to capture screenshot"]
      [] answer \in {"throws", "badJson"} ->
             [success |-> "false", reason |-> "AI Error"]
      [] answer = "noJson" ->
             [success |-> "false", reason |-> "Could not parse AI response"]
      [] answer = "jsonTrue" -> [success |-> "true", reason |-> "result.reason"]
      [] answer = "jsonFalse" -> [success |-> "false", reason |-> "result.reason"]
      [] answer = "jsonString" -> [success |-> "string", reason |-> "result.reason"]
      [] OTHER -> [success |-> "undefined", reason |-> "result.reason"]

(* Mutant of Truthy: every verdict counts as success. *)
TruthyAlways(v) == TRUE

(* if (review.success): JavaScript truthiness of the success member. *)
Truthy(v) == v \in {"true", "string"}

(* run(): the review of a script that replayed completely. *)
ScriptReview ==
    /\ pc = "scriptReview"
    /\ \E answer \in ReviewAnswers :
        LET review == performAIReview(answer) IN
        /\ reviewResult' = review
        /\ hist' = [hist EXCEPT !.verdicts = hist.verdicts + 1,
                                !.answer = answer]
        /\ IF Truthy(review.success)
           THEN /\ recordedSteps' = recordedSteps
                /\ saveQuestLog("success")
                /\ Emit(<<"log", "log", "result", "done">>)
                /\ pc' = "finally"
                /\ UNCHANGED scriptFailedIndex
           ELSE /\ scriptFailedIndex' = Len(existingScript.steps)
                /\ pc' = "handoff"
                /\ Emit(<<"log">>)
                /\ UNCHANGED <<recordedSteps, questLogs>>
    /\ UNCHANGED <<existingScript, stepI, attempt, scriptStepsExecuted, maxSteps,
                   browser, page, aiRound, loopI, remainingSteps,
                   consecutiveWaitCount, toolUses, handoff, turns>>
    /\ UNCHANGED <<trimVars, storeVars, ctxVars, learnVars, restVars>>

(* run() calling runAI for the first time: the hand-off.  The agent is told *)
(* the failed position and the step history when the script failed.         *)
HandoffContext ==
    [entered |-> TRUE,
     scriptFailed |-> scriptFailedIndex # 0 - 1,
     failedAt |-> scriptFailedIndex + 1,
     stepHistory |-> recordedSteps]

RunAIEntry ==
    /\ pc = "handoff"
    /\ handoff' = HandoffContext
    /\ remainingSteps' = maxSteps - Len(recordedSteps)
    /\ loopI' = 0
    /\ consecutiveWaitCount' = 0
    /\ aiRound' = 1
    /\ pc' = "ai"
    /\ Emit(<<"log">>)
    /\ UNCHANGED <<existingScript, stepI, attempt, recordedSteps,
                   scriptStepsExecuted, scriptFailedIndex, maxSteps, browser,
                   page, questLogs, reviewResult, toolUses, turns, hist>>
    /\ UNCHANGED <<trimVars, storeVars, ctxVars, learnVars, restVars>>

(* runAI: what follows the for loop. *)
MaxStepsEvents ==
    IF Len(recordedSteps) >= maxSteps THEN <<"log", "result">> ELSE <<>>

(* runAI: one iteration up to the model's answer.  The call can throw (the  *)
(* exception leaves runAI); an answer without tool_use ends the loop.       *)
InvokeModel ==
    /\ pc = "ai"
    /\ loopI < remainingSteps
    /\ \/ /\ pc' = "catch"
          /\ hist' = [hist EXCEPT !.failure = "llm"]
          /\ Emit(<<"log">>)
          /\ UNCHANGED <<toolUses, turns>>
       \/ \E tools \in (IF turns < MaxTurns THEN SeqsUpTo(ToolNames, MaxTools)
                        ELSE {<<>>}) :
          /\ turns' = IF turns < MaxTurns THEN turns + 1 ELSE turns
          /\ toolUses' = tools
          /\ IF tools = <<>>
             THEN pc' = "review" /\ Emit(<<"log", "token_usage", "log", "screenshot">> \o MaxStepsEvents)
             ELSE pc' = "aiTool" /\ Emit(<<"log", "token_usage">>)
          /\ hist' = hist
    /\ UNCHANGED <<existingScript, stepI, attempt, recordedSteps,
                   scriptStepsExecuted, scriptFailedIndex, maxSteps, browser,
                   page, questLogs, reviewResult, aiRound, loopI,
                   remainingSteps, consecutiveWaitCount, handoff>>
    /\ UNCHANGED <<trimVars, storeVars, ctxVars, learnVars, restVars>>

(* runAI: the for loop ends because the step budget is used up. *)
BudgetExit ==
    /\ pc = "ai"
    /\ loopI >= remainingSteps
    /\ pc' = "review"
    /\ Emit(MaxStepsEvents)
    /\ UNCHANGED <<existingScript, stepI, attempt, recordedSteps,
                   scriptStepsExecuted, scriptFailedIndex, maxSteps, browser,
                   page, questLogs, reviewResult, aiRound, loopI,
                   remainingSteps, consecutiveWaitCount, toolUses, handoff,
                   turns, hist>>
    /\ UNCHANGED <<trimVars, storeVars, ctxVars, learnVars, restVars>>

(* runAI: the consecutive-wait counter after one tool call, and the check  *)
(* made once all tool calls of the turn are done.                           *)
countWait(count, toolName) == IF IsWait(toolName) THEN count + 1 ELSE 0

stuck(count) == count >= MAX_CONSECUTIVE_WAITS

(* Mutant of afterStuck: the failsafe leaves the loop with break. *)
afterStuckBreak == "review"

(* runAI: throw new Error(stuckMessage) in the failsafe: the exception       *)
(* leaves runAI and is caught by the catch block of run().                  *)
afterStuck == "catch"

(* runAI: the text of the error event of the stuck failsafe, which is also  *)
(* the message of the Error it throws.                                      *)
stuckMessage == "Mission failed: AI used wait tool"

(* run(), catch: error.message of the exception, by the place that threw.   *)
errorMessage(failure) == IF failure = "stuck" THEN stuckMessage ELSE failure

(* runAI: the step recorded for a tool call that completed. *)
recordedStep(toolName) == Step(toolName, "ai", 0, None, FALSE, FALSE)

(* runAI: one tool call of the turn.  throws: the browser action raised     *)
(* (caught, reported to the agent as an error result, nothing recorded).    *)
(* After the last tool call of the turn the stuck check runs: it emits an   *)
(* error event and throws, or the tool results are appended and the loop    *)
(* goes on.                                                                 *)
ToolCall ==
    /\ pc = "aiTool"
    /\ \E throws \in BOOLEAN :
        LET toolName == Head(toolUses)
            failed == throws /\ ~IsWait(toolName)
            count == countWait(consecutiveWaitCount, toolName)
            run == IF IsWait(toolName)
                   THEN (IF hist.waitRun < MAX_CONSECUTIVE_WAITS
                         THEN hist.waitRun + 1 ELSE hist.waitRun)
                   ELSE 0
            last == Len(toolUses) = 1
            h == [hist EXCEPT !.waitRun = run,
                              !.threeWaits = hist.threeWaits \/ run >= MAX_CONSECUTIVE_WAITS,
                              !.aiSteps = IF failed THEN @ ELSE @ + 1]
        IN
        /\ recordedSteps' = IF failed THEN recordedSteps
                            ELSE Append(recordedSteps, recordedStep(toolName))
        /\ consecutiveWaitCount' = count
        /\ toolUses' = Tail(toolUses)
        /\ IF last /\ stuck(count)
           THEN /\ pc' = afterStuck
                /\ hist' = [h EXCEPT !.failure = "stuck",
                                     !.errors = Append(@, stuckMessage)]
                /\ Emit(<<"log", "url_update", "log", "error">>)
                /\ UNCHANGED loopI
           ELSE IF last
           THEN /\ pc' = "ai"
                /\ loopI' = loopI + 1
                /\ hist' = h
                /\ Emit(<<"log", "url_update", "screenshot">>)
           ELSE /\ hist' = h
                /\ Emit(<<"log", "url_update">>)
                /\ UNCHANGED <<pc, loopI>>
    /\ UNCHANGED <<existingScript, stepI, attempt, scriptStepsExecuted,
                   scriptFailedIndex, maxSteps, browser, page, questLogs,
                   reviewResult, aiRound, remainingSteps, handoff, turns>>
    /\ UNCHANGED <<trimVars, storeVars, ctxVars, learnVars, restVars>>

(* run(): the script saved after a successful review: the recorded steps,   *)
(* with a Final Wait appended unless the last one is a wait.                *)
FinalWait == Step("wait", "final", 0, None, FALSE, FALSE)

(* Mutant of stepsToSave: the Final Wait overwrites the last step. *)
stepsToSaveOverwriting(steps) ==
    IF steps # <<>> /\ ~IsWait(Last(steps).type)
    THEN [steps EXCEPT ![Len(steps)] = FinalWait]
    ELSE steps

stepsToSave(steps) ==
    IF steps # <<>> /\ ~IsWait(Last(steps).type) THEN Append(steps, FinalWait)
    ELSE steps

(* Mutant of scriptToSave: only the steps of the agent are saved. *)
scriptToSaveAgentOnly(steps, existing) ==
    Script(SelectSeq(steps, LAMBDA st : st.origin # "script"), NoExpiry,
           ~existing.none /\ existing.successCriteria)

(* run(): the object handed to ScriptManager.saveScript. *)
scriptToSave(steps, existing) ==
    Script(steps, NoExpiry, ~existing.none /\ existing.successCriteria)

(* Mutant of extendedBudget: the budget is raised on every fix attempt. *)
extendedBudgetAlways(budget, recorded) == budget + BudgetExtension

(* run(): if (recordedSteps.length >= maxSteps - 5) maxSteps += 10. *)
extendedBudget(budget, recorded) ==
    IF recorded >= budget - BudgetMargin THEN budget + BudgetExtension ELSE budget

(* Mutant of retries: the fix attempt is made whatever the first review says. *)
retriesAlways(review, round) == round = 1

(* run(): if (!reviewResult.success) after the first runAI call: the        *)
(* one-time retry.  round: how many times runAI has been entered.           *)
retries(review, round) == ~Truthy(review.success) /\ round = 1

(* run(): the review after runAI and everything up to the next suspension:  *)
(* on a failed first review the budget extension and the second runAI       *)
(* call; otherwise the terminal branch (script and log saved, result and    *)
(* done emitted; or log saved and error emitted).                           *)
Review ==
    /\ pc = "review"
    /\ \E answer \in ReviewAnswers :
        LET review == performAIReview(answer)
            h == [hist EXCEPT !.verdicts = hist.verdicts + 1,
                              !.answer = answer,
                              !.reviews = Append(hist.reviews, Truthy(review.success))]
        IN
        /\ reviewResult' = review
        /\ IF retries(review, aiRound)
           THEN /\ maxSteps' = extendedBudget(maxSteps, Len(recordedSteps))
                /\ remainingSteps' = maxSteps' - Len(recordedSteps)
                /\ loopI' = 0
                /\ consecutiveWaitCount' = 0
                /\ aiRound' = 2
                /\ pc' = "ai"
                /\ hist' = IF maxSteps' # maxSteps
                            THEN [h EXCEPT !.extensions = @ + 1,
                                           !.extendedAt = Len(recordedSteps)]
                            ELSE h
                /\ Emit(<<"log", "log">>)
                /\ UNCHANGED <<recordedSteps, questLogs, store>>
           ELSE IF Truthy(review.success)
           THEN /\ recordedSteps' = stepsToSave(recordedSteps)
                /\ store' = IF recordedSteps # <<>>
                            THEN saveScript(store,
                                     scriptToSave(recordedSteps', existingScript), now)
                            ELSE store
                /\ saveQuestLog("success")
                /\ pc' = "finally"
                /\ hist' = [h EXCEPT !.saved = recordedSteps # <<>>]
                /\ Emit(<<"log", "log", "result", "done">>)
                /\ UNCHANGED <<maxSteps, remainingSteps, loopI,
                               consecutiveWaitCount, aiRound>>
           ELSE /\ recordedSteps' = recordedSteps
                /\ saveQuestLog("failed")
                /\ pc' = "finally"
                /\ hist' = [h EXCEPT !.failure = "review",
                                     !.errors = Append(@, "Mission flagged by AI Review")]
                /\ Emit(<<"log", "log", "log", "error">>)
                /\ UNCHANGED <<maxSteps, remainingSteps, loopI,
                               consecutiveWaitCount, aiRound, store>>
    /\ UNCHANGED <<existingScript, stepI, attempt, scriptStepsExecuted,
                   scriptFailedIndex, browser, page, toolUses, handoff,
                   turns, now, lastGet>>
    /\ UNCHANGED <<trimVars, ctxVars, learnVars, restVars>>

(* Mutant of Catch: the error is reported but no QuestLog is written. *)
CatchWithoutLog ==
    /\ pc = "catch"
    /\ Emit(<<"log", "error">>)
    /\ pc' = "finally"
    /\ UNCHANGED <<existingScript, stepI, attempt, recordedSteps,
                   scriptStepsExecuted, scriptFailedIndex, maxSteps, browser,
                   page, questLogs, reviewResult, aiRound, loopI,
                   remainingSteps, consecutiveWaitCount, toolUses, handoff,
                   turns, hist>>
    /\ UNCHANGED <<trimVars, storeVars, ctxVars, learnVars, restVars>>

(* run(): the catch block.  The error event carries the message of the     *)
(* exception caught.                                                        *)
Catch ==
    /\ pc = "catch"
    /\ recordedSteps' = recordedSteps
    /\ saveQuestLog("failed")
    /\ Emit(<<"log", "log", "error">>)
    /\ hist' = [hist EXCEPT !.errors = Append(@, errorMessage(hist.failure))]
    /\ pc' = "finally"
    /\ UNCHANGED <<existingScript, stepI, attempt, scriptStepsExecuted,
                   scriptFailedIndex, maxSteps, browser, page,
                   reviewResult, aiRound, loopI, remainingSteps,
                   consecutiveWaitCount, toolUses, handoff, turns>>
    /\ UNCHANGED <<trimVars, storeVars, ctxVars, learnVars, restVars>>

(* run(): the finally block. *)
Finally ==
    /\ pc = "finally"
    /\ close
    /\ hist' = [hist EXCEPT !.closed = TRUE]
    /\ pc' = "returned"
    /\ UNCHANGED <<existingScript, stepI, attempt, recordedSteps,
                   scriptStepsExecuted, scriptFailedIndex, maxSteps, events,
                   lastEvent, questLogs, reviewResult, aiRound, loopI,
                   remainingSteps, consecutiveWaitCount, toolUses, handoff,
                   turns>>
    /\ UNCHANGED <<trimVars, storeVars, ctxVars, learnVars, restVars>>

Next ==
    \/ Launch
    \/ ExecuteStep
    \/ CheckSuccessCriteria
    \/ ScriptReview
    \/ RunAIEntry
    \/ InvokeModel
    \/ BudgetExit
    \/ ToolCall
    \/ Review
    \/ Catch
    \/ Finally

Spec == Init /\ [][Next]_vars

SpecBudget == InitBudget /\ [][Next]_vars

----------------------------------------------------------------------------
(* A run whose client gives up: the page that started the request calls    *)
(* controller.abort() on its fetch (Header.tsx).  The handler of            *)
(* /api/agent hands the runner an event callback and a budget, nothing      *)
(* else, and run() reads no signal: the abort changes nothing the runner    *)
(* sees.                                                                    *)

(* What the run has scheduled so far: recorded steps, LLM turns, reviews. *)
Progress == Len(recordedSteps) + turns + hist.verdicts

ClientAbort ==
    /\ ~abort.raised
    /\ pc # "returned"
    /\ abort' = [raised |-> TRUE, progress |-> Progress]
    /\ UNCHANGED <<runVars, trimVars, storeVars, ctxVars, learnVars, kbVars,
                   pairVars, verifyVars, stepVars, talk>>

(* The run is one on no script or on a stored script of one step. *)
InitCancel ==
    /\ RunInit /\ TrimIdle /\ StoreIdle /\ CtxIdle /\ LearnIdle /\ RestIdle
    /\ store \in {NoScript} \cup {sc \in BudgetScripts : Len(sc.steps) = 1}

NextCancel == Next \/ ClientAbort

SpecCancel == InitCancel /\ [][NextCancel]_vars

(* C26: after the abort signal of a run is raised, the runner schedules no  *)
(* further script step, agent iteration or review once the pending          *)
(* operation has settled: at most one more of them is made.                 *)
C26_StopsAfterAbort ==
    abort.raised => Progress - abort.progress <= 1

(* C26, last part: the run still ends in the cleanup path. *)
C26_CleanupAfterAbort ==
    (abort.raised /\ pc = "returned") => (hist.closed /\ ~browser /\ ~page)


----------------------------------------------------------------------------
(* Properties of one run (Spec) *)

LastLog == questLogs[Len(questLogs)]

(* C2: whenever the agent issues a wait-type tool call 3 times in a row     *)
(* with no other tool call in between, the run is terminated as failed,     *)
(* however the calls are grouped into assistant turns.                      *)
C2_ThreeWaitsFail ==
    (pc = "returned" /\ hist.threeWaits) =>
        (questLogs # <<>> /\ LastLog.status = "failed")

(* C3: the event sequence of every run ends with a result event or an       *)
(* error event followed by a done event, and done is the last event.        *)
C3_EndsWithDone ==
    pc = "returned" =>
        /\ lastEvent = "done"
        /\ Len(events) >= 2
        /\ events[Len(events)] = "done"
        /\ events[Len(events) - 1] \in {"result", "error"}

(* C4: every run writes exactly one QuestLog before it returns; it has      *)
(* status failed on every failure path and status success only when the     *)
(* last reviewer verdict was success.                                       *)
C4_OneQuestLog ==
    /\ Len(questLogs) <= 1
    /\ pc = "returned" =>
        /\ Len(questLogs) = 1
        /\ hist.failure # None => LastLog.status = "failed"
        /\ LastLog.status = "success" => Truthy(reviewResult.success)

C4_Witness ==
    /\ pc = "returned" /\ hist.failure = "stuck"
    /\ Len(questLogs) = 1 /\ LastLog.status = "failed"

(* C5: the browser session is closed before run() returns, on every path;   *)
(* after close the service holds no page.                                   *)
C5_BrowserClosed ==
    pc = "returned" => (hist.closed /\ ~browser /\ ~page)

C5_Witness ==
    pc = "returned" /\ hist.failure = "llm" /\ hist.closed /\ ~page

(* C6: a replayed click step at position i with expectedChange = url whose  *)
(* clicks never change the URL (also after the retry) is reported as a step *)
(* failure at position i, the run enters the hand-off, and the history at   *)
(* hand-off is exactly the steps before position i.                         *)
C6_UrlClickFailure ==
    (hist.urlClickNoNav # 0 /\ pc # "replay") =>
        LET i == hist.urlClickNoNav
            before == SubSeq(existingScript.steps, 1, i - 1) IN
        /\ scriptFailedIndex = i - 1
        /\ pc = "handoff" => recordedSteps = before
        /\ pc # "handoff" =>
            /\ handoff.entered /\ handoff.scriptFailed
            /\ handoff.failedAt = i
            /\ handoff.stepHistory = before

C6_Witness ==
    /\ pc = "ai" /\ hist.urlClickNoNav = 2
    /\ handoff.failedAt = 2 /\ Len(handoff.stepHistory) = 1

(* C7: the recorded step history is append-only: no step is ever removed,   *)
(* replaced or reordered, in replay, hand-off, agent loop, retry or end.    *)
C7_AppendOnly == [][IsPrefix(recordedSteps, recordedSteps')]_vars

C7_Witness ==
    /\ pc = "returned" /\ Len(recordedSteps) >= 3
    /\ recordedSteps[1].origin = "script"
    /\ recordedSteps[2].origin = "ai"
    /\ Last(recordedSteps).origin = "final"

(* C12: a reviewer response with no JSON object gives the review result    *)
(* success = false with reason "Could not parse AI response", and no        *)
(* unparsable, malformed or failed reviewer response is treated as success: *)
(* a run is logged as success only on a response whose JSON object says     *)
(* success: true.                                                           *)
C12_ReviewFailsClosed ==
    hist.verdicts > 0 =>
        /\ hist.answer = "noJson" =>
               reviewResult = [success |-> "false",
                               reason |-> "Could not parse AI response"]
        /\ (questLogs # <<>> /\ LastLog.status = "success") =>
               hist.answer = "jsonTrue"

(* C13: runAI is entered a second time only when the first review made      *)
(* after it failed, and never a third time; after the second such review    *)
(* the run is terminal, with status success iff the second verdict is       *)
(* success.                                                                 *)
C13_OneRetry ==
    /\ aiRound <= 2 /\ Len(hist.reviews) <= 2
    /\ aiRound = 2 => (Len(hist.reviews) >= 1 /\ ~hist.reviews[1])
    /\ Len(hist.reviews) = 2 =>
        /\ pc \in {"finally", "returned"}
        /\ Len(questLogs) = 1
        /\ (LastLog.status = "success") <=> hist.reviews[2]

C13_Witness ==
    /\ pc = "returned" /\ aiRound = 2
    /\ hist.reviews = <<FALSE, TRUE>>
    /\ LastLog.status = "success"

(* The run ended with a QuestLog of status success. *)
EndedInSuccess == pc = "returned" /\ questLogs # <<>> /\ LastLog.status = "success"

NotFinal(st) == st.origin # "final"

(* C14: when a run ends in success after the agent loop, the saved script   *)
(* is exactly the recorded history (the replayed script steps, then the     *)
(* agent's steps), plus one appended wait step iff the last recorded step   *)
(* was not already wait or random_wait; the last step of a script saved by  *)
(* the runner is a wait-type step.                                          *)
C14_SavedScript ==
    (EndedInSuccess /\ hist.saved) =>
        LET body == SelectSeq(recordedSteps, NotFinal) IN
        /\ ~store.none /\ store.steps = recordedSteps
        /\ body # <<>>
        /\ recordedSteps = IF IsWait(Last(body).type) THEN body
                           ELSE Append(body, FinalWait)
        /\ Len(body) = scriptStepsExecuted + hist.aiSteps
        /\ \A i \in 1..Len(body) :
              IF i <= scriptStepsExecuted THEN body[i] = existingScript.steps[i]
              ELSE body[i].origin = "ai"
        /\ IsWait(Last(store.steps).type)

C14_Witness ==
    /\ EndedInSuccess /\ hist.saved
    /\ scriptStepsExecuted = 1 /\ hist.aiSteps = 1
    /\ Len(store.steps) = 3 /\ Last(store.steps) = FinalWait

C14_WitnessNoAppend ==
    /\ EndedInSuccess /\ hist.saved
    /\ IsWait(Last(recordedSteps).type) /\ Last(recordedSteps).origin = "ai"
    /\ store.steps = recordedSteps

(* C15: every run that ends with status success creates or overwrites the   *)
(* stored script of its quest, also a run that completes by script replay   *)
(* alone.                                                                   *)
C15_SuccessSaves == EndedInSuccess => hist.saved

(* C16: a run that completes by script replay alone writes a QuestLog with  *)
(* aiStepCount = 0 and scriptStepCount = stepCount = the number of script   *)
(* steps.                                                                   *)
C16_ScriptOnlyCounts ==
    (EndedInSuccess /\ aiRound = 0) =>
        /\ LastLog.aiStepCount = 0
        /\ LastLog.scriptStepCount = LastLog.stepCount
        /\ LastLog.stepCount = Len(existingScript.steps)

C16_Witness ==
    /\ EndedInSuccess /\ aiRound = 0
    /\ LastLog.scriptStepCount = 2 /\ LastLog.aiStepCount = 0

(* C17: in every QuestLog scriptStepCount is the number of steps replayed   *)
(* from the script, aiStepCount the number of steps recorded from agent     *)
(* tool calls, and their sum is stepCount; a step of neither origin is not  *)
(* counted as an agent step.                                                *)
C17_CountsByOrigin ==
    questLogs # <<>> =>
        /\ LastLog.scriptStepCount =
               Len(SelectSeq(recordedSteps, LAMBDA st : st.origin = "script"))
        /\ LastLog.aiStepCount = hist.aiSteps
        /\ LastLog.aiStepCount =
               Len(SelectSeq(recordedSteps, LAMBDA st : st.origin = "ai"))
        /\ LastLog.scriptStepCount + LastLog.aiStepCount = LastLog.stepCount

C21_CriteriaFailureHandsOff ==
    hist.criteriaFailed =>
        /\ scriptFailedIndex = Len(existingScript.steps)
        /\ scriptStepsExecuted = Len(existingScript.steps)
        /\ pc = "handoff" => recordedSteps = existingScript.steps
        /\ pc # "handoff" =>
            /\ aiRound >= 1
            /\ handoff.entered /\ handoff.scriptFailed
            /\ handoff.failedAt = Len(existingScript.steps) + 1
            /\ handoff.stepHistory = existingScript.steps
            /\ IsPrefix(existingScript.steps, recordedSteps)
        /\ (questLogs # <<>> /\ LastLog.status = "success") => hist.reviews # <<>>

C21_Witness ==
    /\ hist.criteriaFailed /\ pc = "ai"
    /\ Len(existingScript.steps) = 2
    /\ handoff.failedAt = 3 /\ handoff.stepHistory = existingScript.steps

(* C22: the number of recorded steps never exceeds the current maximum      *)
(* step budget.                                                             *)
C22_WithinBudget == Len(recordedSteps) <= maxSteps

(* C23: the step budget is raised at most once in a run, by exactly 10,     *)
(* only on entry to the fix attempt that follows a failed first review, and *)
(* only when the recorded steps are within 5 of the budget; the budget is   *)
(* always its initial value or that value plus 10.                          *)
C23_ExtendedOnce ==
    /\ maxSteps \in {hist.budget0, hist.budget0 + 10}
    /\ hist.extensions <= 1
    /\ maxSteps = hist.budget0 + 10 * hist.extensions
    /\ hist.extensions = 1 =>
        /\ aiRound = 2
        /\ hist.reviews # <<>> /\ ~hist.reviews[1]
        /\ hist.extendedAt >= hist.budget0 - 5

C23_Witness ==
    /\ hist.budget0 = StepBudget + BudgetMargin + 1
    /\ hist.extensions = 1 /\ maxSteps = hist.budget0 + 10
    /\ hist.extendedAt = hist.budget0 - 5
    /\ pc = "returned"

(* C23: the fix attempt entered far from the budget leaves it as it was. *)
C23_WitnessNotExtended ==
    /\ aiRound = 2 /\ maxSteps = hist.budget0 /\ pc = "returned"

(* C23: the budget changes only in the step that enters the fix attempt. *)
C23_ChangesOnRetryOnly ==
    [][maxSteps' # maxSteps =>
          /\ pc = "review" /\ pc' = "ai" /\ aiRound = 1 /\ aiRound' = 2
          /\ maxSteps' = maxSteps + 10
          /\ Len(recordedSteps) >= maxSteps - 5]_vars

(* C22, second part: an agent loop entered with the budget used up makes no *)
(* LLM call (the loop body is not entered).                                 *)
C22_NoCallWhenUsedUp ==
    [][(pc = "ai" /\ loopI = 0 /\ Len(recordedSteps) >= maxSteps) =>
           (pc' = "review" /\ turns' = turns /\ hist'.failure = hist.failure)]_vars

(* What one call of executeStep for the step in progress leads to: the     *)
(* step is recorded and the loop moves on; or the same step is called once  *)
(* more; or, from the second call only, the failure is reported with the    *)
(* position of the step.                                                    *)
StepCallOutcome ==
    \/ /\ stepI' = stepI + 1 /\ attempt' = 1
       /\ recordedSteps' = Append(recordedSteps, existingScript.steps[stepI])
       /\ pc' \in {"replay", "criteria"}
    \/ /\ attempt = 1 /\ attempt' = 2 /\ stepI' = stepI /\ pc' = "replay"
       /\ recordedSteps' = recordedSteps
    \/ /\ attempt = 2 /\ pc' = "handoff" /\ scriptFailedIndex' = stepI - 1
       /\ recordedSteps' = recordedSteps

(* The wait before the retry raised after a failed first attempt: the        *)
(* exception leaves executeStep and the replay loop.                        *)
BackoffEscapes ==
    /\ attempt = 1 /\ pc' = "catch" /\ hist'.failure = "browser"
    /\ recordedSteps' = recordedSteps

(* C31: each script step gets exactly one automatic retry: executeStep      *)
(* attempts a step at most twice, reports success if either attempt         *)
(* completes, reports failure only after the second attempt also raised,    *)
(* and a step failure never escapes as an exception that ends the run       *)
(* without hand-off.                                                        *)
C31_OneRetryThenHandsOff ==
    /\ [](attempt <= 2)
    /\ [][pc = "replay" => StepCallOutcome]_vars

(* C31 without its last part: the only other way out of a call is the       *)
(* exception of the wait before the retry, after a failed first attempt.    *)
C31_OneRetry ==
    /\ [](attempt <= 2)
    /\ [][pc = "replay" =>
            StepCallOutcome \/ BackoffEscapes]_vars

(* A step failed in both attempts and the agent was handed its position. *)
C31_Witness ==
    /\ pc = "ai" /\ attempt = 2 /\ handoff.scriptFailed
    /\ handoff.failedAt = stepI /\ stepI = 2
    /\ Len(recordedSteps) = 1

(* The wait before the retry raised: the run is in its catch block. *)
C31_WitnessEscape ==
    pc = "catch" /\ hist.failure = "browser" /\ attempt = 1 /\ stepI = 2

(* C33: after stuck detection fires the failure is final for the run: no    *)
(* reviewer invocation, no retry agent loop and no script save happens      *)
(* afterwards, and the run's QuestLog has status failed.                    *)
C33_StuckIsFinal ==
    /\ [](hist.failure = "stuck" =>
            /\ pc \in {"catch", "finally", "returned"}
            /\ ~hist.saved
            /\ pc # "catch" => (Len(questLogs) = 1 /\ LastLog.status = "failed"))
    /\ [][hist.failure = "stuck" =>
            /\ hist'.verdicts = hist.verdicts /\ reviewResult' = reviewResult
            /\ aiRound' = aiRound /\ turns' = turns /\ loopI' = loopI
            /\ store' = store /\ recordedSteps' = recordedSteps]_vars

(* Stuck detection fired in the agent loop entered after a script failure: *)
(* the run returned with no review made and the stored script as it was.    *)
C33_Witness ==
    /\ pc = "returned" /\ hist.failure = "stuck"
    /\ handoff.scriptFailed /\ aiRound = 1 /\ hist.verdicts = 0
    /\ ~existingScript.none /\ store = existingScript
    /\ LastLog.status = "failed" /\ ~hist.saved

(* C38: a run that ends with status failed leaves the stored script of its  *)
(* quest unchanged: the script file changes only in the step that follows a *)
(* reviewer verdict of success and writes the success QuestLog, the one     *)
(* QuestLog of the run; a failed review, stuck detection or an exception    *)
(* neither overwrites nor deletes the stored script.                        *)
C38_FailedKeepsScript ==
    /\ [](/\ Len(questLogs) <= 1
          /\ (pc = "returned" /\ LastLog.status = "failed") =>
                (~hist.saved /\ (hist.failure # "launch" => store = existingScript)))
    /\ [][store' # store =>
            /\ reviewResult'.success \in {"true", "string"}
            /\ questLogs = <<>> /\ Len(questLogs') = 1
            /\ questLogs'[1].status = "success"]_vars

(* The second review of a run on a stored script failed after the agent     *)
(* recorded a step: the run returned and the script file is as it was.      *)
C38_Witness ==
    /\ pc = "returned" /\ LastLog.status = "failed" /\ hist.failure = "review"
    /\ hist.reviews = <<FALSE, FALSE>>
    /\ ~existingScript.none /\ store = existingScript
    /\ hist.aiSteps >= 1 /\ recordedSteps # store.steps

(* An exception ended a run on a stored script after the agent recorded a   *)
(* step.                                                                    *)
C38_WitnessException ==
    /\ pc = "returned" /\ LastLog.status = "failed" /\ hist.failure = "llm"
    /\ ~store.none /\ store = existingScript /\ hist.aiSteps >= 1

(* C39: a result event is emitted at most once per run and only in a run   *)
(* whose QuestLog has status success; a run never emits both a result      *)
(* event and an error event, and never emits the same error twice.         *)
EventCount(e) == Cardinality({i \in DOMAIN events : events[i] = e})

C39_ResultOnce == EventCount("result") <= 1

C39_ResultOnlyInSuccess ==
    (pc = "returned" /\ EventCount("result") >= 1) =>
        (questLogs # <<>> /\ LastLog.status = "success")

C39_ResultOrError == ~(EventCount("result") >= 1 /\ EventCount("error") >= 1)

C39_NoErrorTwice ==
    \A i, j \in DOMAIN hist.errors : i # j => hist.errors[i] # hist.errors[j]

C39_ResultOnceErrorOnce ==
    /\ Len(hist.errors) = EventCount("error")
    /\ C39_ResultOnce /\ C39_ResultOnlyInSuccess
    /\ C39_ResultOrError /\ C39_NoErrorTwice

----------------------------------------------------------------------------
(* The agent conversation (runAI: const messages) and trimMessageHistory.   *)
(* A turn: its role, what its text block is (system prompt, system note,    *)
(* summary, answer), the ids of its tool_use blocks, the tool_use_ids of    *)
(* its tool_result blocks, for a summary the number of turns elided, and    *)
(* the positions of the tool_result blocks that hold an image block (kept   *)
(* in SpecTalk only: trimMessageHistory reads no block but tool_result).    *)
Message(role, text, toolUse, toolResult, elided) ==
    [role |-> role, text |-> text, toolUse |-> toolUse,
     toolResult |-> toolResult, elided |-> elided, images |-> {}]

SystemPrompt == Message("user", "system", <<>>, <<>>, 0)
SystemNote == Message("user", "note", <<>>, <<>>, 0)

(* Mutant of SummaryMessage: the count includes the first kept turn. *)
SummaryMessageCountingCut(trimmedCount) ==
    Message("user", "summary", <<>>, <<>>, trimmedCount + 1)

(* trimMessageHistory: summaryMessage, CONTEXT_TRIMMED_MESSAGE(trimmedCount). *)
SummaryMessage(trimmedCount) == Message("user", "summary", <<>>, <<>>, trimmedCount)
AssistantTurn(ids) == Message("assistant", "answer", ids, <<>>, 0)
ToolResultTurn(ids) == Message("user", "", <<>>, ids, 0)

hasToolResult(msg) == msg.role = "user" /\ msg.toolResult # <<>>

(* trimMessageHistory: the while loop that moves keepFromIndex back over    *)
(* tool_result turns (k is the 0-based index of the code).                  *)
RECURSIVE walkBack(_, _)
walkBack(msgs, k) ==
    IF k > 1 /\ k < Len(msgs) /\ hasToolResult(msgs[k + 1])
    THEN walkBack(msgs, k - 1)
    ELSE k

Max(a, b) == IF a >= b THEN a ELSE b

(* Mutant of trimMessageHistory: the cut point is left where the window    *)
(* puts it, also on a tool_result turn.                                     *)
trimMessageHistoryAtWindow(msgs) ==
    IF Len(msgs) <= MESSAGE_HISTORY_WINDOW + 1 THEN msgs
    ELSE LET keepFromIndex == Max(1, Len(msgs) - MESSAGE_HISTORY_WINDOW)
         IN <<msgs[1], SummaryMessage(keepFromIndex - 1)>> \o
            SubSeq(msgs, keepFromIndex + 1, Len(msgs))

trimMessageHistory(msgs) ==
    IF Len(msgs) <= MESSAGE_HISTORY_WINDOW + 1 THEN msgs
    ELSE LET keepFromIndex == Max(1, walkBack(msgs, Len(msgs) - MESSAGE_HISTORY_WINDOW))
             recentMessages == SubSeq(msgs, keepFromIndex + 1, Len(msgs))
             trimmedCount == keepFromIndex - 1
         IN IF trimmedCount <= 0 THEN msgs
            ELSE <<msgs[1], SummaryMessage(trimmedCount)>> \o recentMessages

TrimInit ==
    /\ messages = <<SystemPrompt>>
    /\ trimmed = <<>>
    /\ nextId = 1

(* runAI: one iteration as the conversation sees it: up to two system      *)
(* notes (selector hints, failed selectors) are appended, the trimmed list  *)
(* is sent to the model, the answer is appended and, when it holds tool_use *)
(* blocks and stuck detection does not fire, one turn with the tool_result  *)
(* of each, in order.  An answer without tool_use, or stuck detection, ends *)
(* the conversation.                                                        *)
AgentTurn ==
    /\ Last(messages).role = "user"
    /\ Len(messages) <= MaxMsgs
    /\ \E notes \in 0..2, n \in 0..MaxTools, stuckFires \in BOOLEAN :
        LET sent == messages \o [i \in 1..notes |-> SystemNote]
            ids == [i \in 1..n |-> nextId + i - 1]
        IN
        /\ trimmed' = trimMessageHistory(sent)
        /\ messages' = sent \o <<AssistantTurn(ids)>> \o
                       (IF n > 0 /\ ~stuckFires THEN <<ToolResultTurn(ids)>> ELSE <<>>)
        /\ nextId' = nextId + n
    /\ UNCHANGED <<runVars, storeVars, ctxVars, learnVars, restVars>>

InitTrim ==
    /\ TrimInit /\ RunInit /\ StoreIdle /\ CtxIdle /\ LearnIdle /\ RestIdle
    /\ store = NoScript

NextTrim == AgentTurn

SpecTrim == InitTrim /\ [][NextTrim]_vars

(* C1: in the list trimMessageHistory returns, every user turn holding a    *)
(* tool_result is immediately preceded by the assistant turn holding the    *)
(* tool_use with the matching ids, and no tool_result turn is the first     *)
(* kept turn after the system and summary turns.                            *)
C1_TrimKeepsPairs ==
    /\ \A k \in 1..Len(trimmed) :
        hasToolResult(trimmed[k]) =>
            /\ k > 1
            /\ trimmed[k - 1].role = "assistant"
            /\ trimmed[k - 1].toolUse = trimmed[k].toolResult
    /\ (Len(trimmed) >= 3 /\ trimmed[2].text = "summary") => ~hasToolResult(trimmed[3])

(* The window cut fell on a tool_result turn and was moved back by one. *)
C1_Witness ==
    /\ Len(trimmed) = MESSAGE_HISTORY_WINDOW + 3
    /\ trimmed[2].text = "summary"
    /\ trimmed[3].toolUse # <<>>
    /\ hasToolResult(trimmed[4])

(* The list the last iteration handed to trimMessageHistory: the            *)
(* conversation without the answer and the tool results appended after it.  *)
Sent ==
    IF hasToolResult(Last(messages))
    THEN SubSeq(messages, 1, Len(messages) - 2)
    ELSE SubSeq(messages, 1, Len(messages) - 1)

(* C34: when trimMessageHistory trims, its result is [the original first    *)
(* turn, one summary turn, the kept suffix of the input], the kept suffix   *)
(* has at most window + 1 = 11 turns when tool-call and tool-result turns   *)
(* alternate, and the count stated in the summary turn is the number of     *)
(* input turns absent from the result (cut point minus 1).                  *)
C34_TrimShape ==
    (Len(messages) > 1 /\ trimmed # Sent) =>
        LET kept == Len(trimmed) - 2
            cut == Len(Sent) - kept
        IN
        /\ kept >= 1 /\ cut >= 2
        /\ trimmed[1] = Sent[1] /\ trimmed[1] = SystemPrompt
        /\ trimmed[2].role = "user" /\ trimmed[2].text = "summary"
        /\ \A k \in 3..Len(trimmed) : trimmed[k].text # "summary"
        /\ SubSeq(trimmed, 3, Len(trimmed)) = SubSeq(Sent, cut + 1, Len(Sent))
        /\ kept <= MESSAGE_HISTORY_WINDOW + 1
        /\ trimmed[2].elided = cut - 1
        /\ trimmed[2].elided = Len(Sent) - (Len(trimmed) - 1)

(* The cut was moved back by one turn: 11 turns kept, 2 elided. *)
C34_Witness ==
    /\ Len(messages) > 1 /\ Len(Sent) = MESSAGE_HISTORY_WINDOW + 4
    /\ Len(trimmed) = MESSAGE_HISTORY_WINDOW + 3
    /\ trimmed[2].elided = 2

(* The cut stayed where the window put it: 10 turns kept. *)
C34_WitnessAtWindow ==
    /\ Len(messages) > 1 /\ Len(trimmed) = MESSAGE_HISTORY_WINDOW + 2
    /\ trimmed[2].elided = Len(Sent) - MESSAGE_HISTORY_WINDOW - 1
    /\ trimmed[2].elided >= 2

----------------------------------------------------------------------------
(* The script store of one quest under its operations and the clock.        *)
(* Scripts are saved by the runner (no expiresAt in the object it passes)   *)
(* and by the script-creator API (the script of the request body, as sent). *)
SavedSteps == { s \in StoredSteps : Len(s) = 1 /\ s[1].type \in {"navigate", "wait"} }

RequestExpiry == {NoExpiry, 1, 2}

StoreInit ==
    /\ store = NoScript
    /\ now = 0
    /\ lastGet = [result |-> NoScript, at |-> 0]

Tick ==
    /\ now < MaxTime
    /\ now' = now + 1
    /\ UNCHANGED <<store, lastGet>>
    /\ UNCHANGED <<runVars, trimVars, ctxVars, learnVars, restVars>>

(* ScriptManager.ts *)
GetScript ==
    /\ LET got == getScript(store, now) IN
        /\ lastGet' = [result |-> got.result, at |-> now]
        /\ store' = got.store
    /\ UNCHANGED now
    /\ UNCHANGED <<runVars, trimVars, ctxVars, learnVars, restVars>>

RunnerSave ==
    /\ \E st \in SavedSteps :
        store' = saveScript(store, Script(st, NoExpiry, FALSE), now)
    /\ UNCHANGED <<now, lastGet>>
    /\ UNCHANGED <<runVars, trimVars, ctxVars, learnVars, restVars>>

CreatorSave ==
    /\ \E st \in SavedSteps, e \in RequestExpiry :
        store' = saveScript(store, Script(st, e, FALSE), now)
    /\ UNCHANGED <<now, lastGet>>
    /\ UNCHANGED <<runVars, trimVars, ctxVars, learnVars, restVars>>

InitStore == StoreInit /\ RunInit /\ TrimIdle /\ CtxIdle /\ LearnIdle /\ RestIdle

NextStore == Tick \/ GetScript \/ RunnerSave \/ CreatorSave

SpecStore == InitStore /\ [][NextStore]_vars

(* The expiry variant (part_004) *)
GetScriptExpiring ==
    /\ LET got == getScriptExpiring(store, now) IN
        /\ lastGet' = [result |-> got.result, at |-> now]
        /\ store' = got.store
    /\ UNCHANGED now
    /\ UNCHANGED <<runVars, trimVars, ctxVars, learnVars, restVars>>

RunnerSaveExpiring ==
    /\ \E st \in SavedSteps :
        store' = saveScriptExpiring(store, Script(st, NoExpiry, FALSE), now)
    /\ UNCHANGED <<now, lastGet>>
    /\ UNCHANGED <<runVars, trimVars, ctxVars, learnVars, restVars>>

NextStoreExpiring == Tick \/ GetScriptExpiring \/ RunnerSaveExpiring

SpecStoreExpiring == InitStore /\ [][NextStoreExpiring]_vars

(* C8: getScript never returns a script whose expiresAt is earlier than the *)
(* time of the call.                                                        *)
C8_NeverReturnsExpired ==
    (~lastGet.result.none /\ lastGet.result.expiresAt # NoExpiry) =>
        ~(lastGet.at > lastGet.result.expiresAt)

(* The expiry variant returned none for an expired script and deleted it. *)
C8_ExpiredDeleted ==
    lastGet.at = now /\ lastGet.at > ExpirationDays /\ lastGet.result.none /\ store.none

----------------------------------------------------------------------------
(* ContextService.  A string is a sequence of characters; "{{" and "}}" and *)
(* a key name are one character each.  String.prototype.replace with a      *)
(* string pattern replaces the first occurrence only.                       *)
indexOf(s, sub) ==
    LET hits == { i \in 1..(Len(s) - Len(sub) + 1) : SubSeq(s, i, i + Len(sub) - 1) = sub }
    IN IF hits = {} THEN 0 ELSE CHOOSE i \in hits : \A j \in hits : i <= j

includes(s, sub) == indexOf(s, sub) # 0

replace(s, pattern, replacement) ==
    LET i == indexOf(s, pattern) IN
    IF i = 0 THEN s
    ELSE SubSeq(s, 1, i - 1) \o replacement \o SubSeq(s, i + Len(pattern), Len(s))

RECURSIVE replaceAll(_, _, _)
replaceAll(s, pattern, replacement) ==
    LET i == indexOf(s, pattern) IN
    IF i = 0 \/ pattern = <<>> THEN s
    ELSE SubSeq(s, 1, i - 1) \o replacement \o
         replaceAll(SubSeq(s, i + Len(pattern), Len(s)), pattern, replacement)

Placeholder(key) == <<"{{", key, "}}">>

(* Parameter values: typeof value === 'string', or anything else. *)
Str(s) == [type |-> "string", v |-> s]
Num(n) == [type |-> "number", v |-> n]

(* One pass of the inner loop: every string field that includes `from`     *)
(* gets its first occurrence replaced by `to`.                              *)
substituteFields(p, from, to) ==
    [f \in DOMAIN p |->
        IF p[f].type = "string" /\ includes(p[f].v, from)
        THEN Str(replace(p[f].v, from, to))
        ELSE p[f]]

substituteFieldsGlobally(p, from, to) ==
    [f \in DOMAIN p |->
        IF p[f].type = "string" /\ includes(p[f].v, from)
        THEN Str(replaceAll(p[f].v, from, to))
        ELSE p[f]]

(* The outer loop over Object.entries(this.context), in insertion order. *)
RECURSIVE applyEntries(_, _, _)
applyEntries(p, ctx, i) ==
    IF i > Len(ctx) THEN p
    ELSE applyEntries(substituteFields(p, Placeholder(ctx[i].key), ctx[i].value), ctx, i + 1)

RECURSIVE applyEntriesGlobally(_, _, _)
applyEntriesGlobally(p, ctx, i) ==
    IF i > Len(ctx) THEN p
    ELSE applyEntriesGlobally(
             substituteFieldsGlobally(p, Placeholder(ctx[i].key), ctx[i].value), ctx, i + 1)

RECURSIVE reverseEntries(_, _, _)
reverseEntries(p, ctx, i) ==
    IF i > Len(ctx) THEN p
    ELSE reverseEntries(substituteFields(p, ctx[i].value, Placeholder(ctx[i].key)), ctx, i + 1)

(* Mutant of applySubstitutions: every occurrence is replaced (a global    *)
(* replace), while reverseSubstitutions still replaces the first only.      *)
applySubstitutionsGlobally(p, ctx) == applyEntriesGlobally(p, ctx, 1)

applySubstitutions(p, ctx) == applyEntries(p, ctx, 1)

reverseSubstitutions(p, ctx) == reverseEntries(p, ctx, 1)

(* generateDefaults: the context of a run holds dynamicEmail, an address    *)
(* jordan.mcinnis+<date><random>@hellofresh.ca ("j", the random part, "c"). *)
Emails == { <<"j", "1", "c">>, <<"j", "2", "c">> }

Contexts == {<<>>} \cup { <<[key |-> "dynamicEmail", value |-> e]>> : e \in Emails }

(* Parameter strings: up to MaxPieces pieces, each a character of an        *)
(* address, a whole address, another character, or a placeholder.           *)
Pieces ==
    { <<"j">>, <<"1">>, <<"c">>, <<"a">>, <<"j", "1", "c">>,
      Placeholder("dynamicEmail") }

RECURSIVE Strings(_)
Strings(n) ==
    IF n = 0 THEN {<<>>}
    ELSE LET shorter == Strings(n - 1) IN
         shorter \cup { s \o q : s \in shorter, q \in Pieces }

ParamObjects ==
    { [text |-> Str(t), selector |-> Str(sel), x |-> Num(7)] :
        t \in Strings(MaxPieces), sel \in Strings(1) }

StringFields(p) == { f \in DOMAIN p : p[f].type = "string" }

(* No value of the context occurs in a string of p. *)
NoCollision(p, ctx) ==
    \A i \in 1..Len(ctx) : \A f \in StringFields(p) : ~includes(p[f].v, ctx[i].value)

InitCtx ==
    /\ params \in ParamObjects
    /\ context \in Contexts
    /\ applied = NotCalled
    /\ reversed = NotCalled
    /\ pushed = NotCalled
    /\ RunInit /\ TrimIdle /\ StoreIdle /\ LearnIdle /\ RestIdle /\ store = NoScript

Apply ==
    /\ ~applied.done
    /\ applied' = [done |-> TRUE, p |-> applySubstitutions(params, context)]
    /\ UNCHANGED <<params, context, reversed, pushed>>
    /\ UNCHANGED <<runVars, trimVars, storeVars, learnVars, restVars>>

Reverse ==
    /\ applied.done /\ ~reversed.done
    /\ reversed' = [done |-> TRUE, p |-> reverseSubstitutions(applied.p, context)]
    /\ UNCHANGED <<params, context, applied, pushed>>
    /\ UNCHANGED <<runVars, trimVars, storeVars, learnVars, restVars>>

(* runAI: what is recorded for a click or type_text tool call that         *)
(* completed: the parameters with the context values turned back into       *)
(* placeholders, and a description built from the resolved input (the       *)
(* branch of a plain selector for click).                                   *)
recordedParams(toolInput, ctx) == reverseSubstitutions(toolInput, ctx)

stepDescription(toolName, toolInput, ctx) ==
    IF toolName = "click"
    THEN <<"AI Action: click ">> \o applySubstitutions(toolInput, ctx).selector.v
    ELSE <<"AI Action: type ">> \o applySubstitutions(toolInput, ctx).text.v

RecordToolCall ==
    /\ ~pushed.done
    /\ \E toolName \in {"click", "type_text"} :
        pushed' = [done |-> TRUE, origin |-> "ai", type |-> toolName,
                   params |-> recordedParams(params, context),
                   description |-> stepDescription(toolName, params, context)]
    /\ UNCHANGED <<params, context, applied, reversed>>
    /\ UNCHANGED <<runVars, trimVars, storeVars, learnVars, restVars>>

(* run(): a replayed step is pushed as it is stored; executeStep resolves   *)
(* the placeholders in a copy (finalParams).  The stored script was         *)
(* written before this run drew its address.                                *)
ReplayStep ==
    /\ ~pushed.done
    /\ NoCollision(params, context)
    /\ \E type \in {"click", "type_text"} :
        LET finalParams == applySubstitutions(params, context) IN
        pushed' = [done |-> TRUE, origin |-> "script", type |-> type,
                   params |-> params,
                   description |-> <<"stored description">>]
    /\ UNCHANGED <<params, context, applied, reversed>>
    /\ UNCHANGED <<runVars, trimVars, storeVars, learnVars, restVars>>

NextCtx == Apply \/ Reverse \/ RecordToolCall \/ ReplayStep

SpecCtx == InitCtx /\ [][NextCtx]_vars

Occurrences(s, sub) ==
    Cardinality({ i \in 1..(Len(s) - Len(sub) + 1) : SubSeq(s, i, i + Len(sub) - 1) = sub })

(* C9: for a run context and a parameter object whose values do not        *)
(* collide with the context values, reverseSubstitutions gives back p from  *)
(* applySubstitutions(p), also when a placeholder occurs more than once in  *)
(* a field or in several fields.                                            *)
C9_RoundTrip ==
    (reversed.done /\ NoCollision(params, context)) => reversed.p = params

C9_Witness ==
    /\ reversed.done /\ NoCollision(params, context)
    /\ context # <<>>
    /\ Occurrences(params.text.v, Placeholder("dynamicEmail")) >= 2
    /\ includes(params.selector.v, Placeholder("dynamicEmail"))
    /\ applied.p # params
    /\ reversed.p = params

(* C11: a click or type_text step in the form in which it is persisted     *)
(* holds no literal value of the run context anywhere in it, whether it     *)
(* was replayed from the old script or recorded from an agent tool call.    *)
C11_NoLiteralPersisted ==
    pushed.done =>
        \A i \in 1..Len(context) :
            /\ \A f \in StringFields(pushed.params) :
                   ~includes(pushed.params[f].v, context[i].value)
            /\ ~includes(pushed.description, context[i].value)

(* The same for the parameters of the step alone. *)
C11_ParamsTemplated ==
    pushed.done =>
        \A i \in 1..Len(context) : \A f \in StringFields(pushed.params) :
            ~includes(pushed.params[f].v, context[i].value)

(* C10: the result of applySubstitutions contains no {{key}} placeholder    *)
(* of a key present in the context, in any string field.                    *)
C10_NoPlaceholderLeft ==
    applied.done =>
        \A i \in 1..Len(context) : \A f \in StringFields(applied.p) :
            ~includes(applied.p[f].v, Placeholder(context[i].key))

----------------------------------------------------------------------------
(* The selector bookkeeping of runAI: failedSelectors, lastUrl, currentUrl  *)
(* and the Knowledge Base.  A URL is a sequence of characters.              *)
Urls == { <<"u">>, <<"u", "?", "q">>, <<"x">> }

Selectors == {"A", "B", "C"}

Range(f) == { f[i] : i \in DOMAIN f }

(* url.split('?')[0] *)
cleanUrl(u) ==
    LET i == indexOf(u, <<"?">>) IN IF i = 0 THEN u ELSE SubSeq(u, 1, i - 1)

CleanUrls == { cleanUrl(u) : u \in Urls }

(* Mutant of learn: the selector is pushed without the includes test. *)
learnAppending(data, u, selector) ==
    IF selector = "" THEN data
    ELSE [data EXCEPT ![cleanUrl(u)] = Append(@, selector)]

(* KnowledgeBase.learn on the parsed file (an absent key reads as []). *)
learn(data, u, selector) ==
    LET clean == cleanUrl(u) IN
    IF selector = "" \/ selector \in Range(data[clean]) THEN data
    ELSE [data EXCEPT ![clean] = Append(@, selector)]

(* selector-knowledge.json before the run. *)
KnowledgeFiles ==
    { [c \in CleanUrls |-> <<>>],
      [c \in CleanUrls |-> IF c = <<"x">> THEN <<"C">> ELSE <<>>] }

NoCall == [ok |-> FALSE, name |-> None, selector |-> None, url |-> <<>>,
           kb |-> <<>>, failures |-> <<>>, failed |-> <<>>,
           executed |-> FALSE, learned |-> FALSE]

(* Mutant of rejected: only click calls are tested. *)
rejectedClickOnly(toolName, selector, failed) ==
    toolName = "click" /\ selector \in Range(failed)

(* runAI: the test at the head of the try block of a tool call:             *)
(* (click || type_text) && failedSelectors.includes(toolInput.selector).    *)
rejected(toolName, selector, failed) ==
    toolName \in {"click", "type_text"} /\ selector \in Range(failed)

LearnHist ==
    [failedHere |-> {},     \* selectors that failed since the page URL last changed
     failures |-> <<>>,     \* selectors of the failed calls made in a row on this page URL
     touchedFailed |-> FALSE,\* a selector in failedHere was tried in the browser again
     last |-> NoCall]       \* the last tool call, with the state before it

InitLearn ==
    /\ url \in Urls
    /\ lastUrl = url
    /\ currentUrl = url
    /\ failedSelectors = <<>>
    /\ kb \in KnowledgeFiles
    /\ loop = [at |-> "iteration", batch |-> 0, calls |-> 0]
    /\ lhist = LearnHist
    /\ RunInit /\ TrimIdle /\ StoreIdle /\ CtxIdle /\ RestIdle /\ store = NoScript

(* runAI: the start of an iteration up to the model's answer: currentUrl is *)
(* read, failedSelectors is emptied if it differs from lastUrl; the answer  *)
(* holds tool calls or ends the loop.                                       *)
Iteration ==
    /\ loop.at = "iteration"
    /\ currentUrl' = url
    /\ IF url # lastUrl
       THEN failedSelectors' = <<>> /\ lastUrl' = url
       ELSE UNCHANGED <<failedSelectors, lastUrl>>
    /\ \E answers \in BOOLEAN :
        loop' = [loop EXCEPT !.at = IF answers /\ loop.calls < MaxCalls
                                    THEN "tools" ELSE "done",
                             !.batch = 0]
    /\ UNCHANGED <<url, kb, lhist>>
    /\ UNCHANGED <<runVars, trimVars, storeVars, ctxVars, restVars>>

(* runAI: one click or type_text tool call.  selector "": a type_text call  *)
(* without a selector (it types into the focused element).  works: the      *)
(* browser action succeeds; next: the page URL after a click that succeeds; *)
(* more: the assistant turn holds a further tool call.                      *)
SelectorCall ==
    /\ loop.at = "tools"
    /\ \E name \in {"click", "type_text"}, selector \in Selectors \cup {""},
          works \in BOOLEAN, next \in Urls, more \in BOOLEAN :
        LET blocked == rejected(name, selector, failedSelectors)
            ok == ~blocked /\ works
            after == IF ok /\ name = "click" THEN next ELSE url
            moved == after # url
        IN
        /\ selector = "" => name = "type_text"
        /\ url' = after
        /\ IF ok
           THEN IF Len(failedSelectors) > 0
                THEN /\ kb' = learn(kb, currentUrl, selector)
                     /\ failedSelectors' = <<>>
                ELSE UNCHANGED <<kb, failedSelectors>>
           ELSE /\ failedSelectors' = IF selector # ""
                                       THEN Append(failedSelectors, selector)
                                       ELSE failedSelectors
                /\ kb' = kb
        /\ loop' = [at |-> IF more /\ loop.batch + 1 < MaxBatch
                              /\ loop.calls + 1 < MaxCalls
                           THEN "tools" ELSE "iteration",
                    batch |-> loop.batch + 1, calls |-> loop.calls + 1]
        /\ lhist' =
            [failedHere |-> IF moved THEN {}
                            ELSE IF ok \/ selector = "" THEN lhist.failedHere
                            ELSE lhist.failedHere \cup {selector},
             failures |-> IF moved \/ ok THEN <<>>
                          ELSE IF selector = "" THEN lhist.failures
                          ELSE Append(lhist.failures, selector),
             touchedFailed |-> lhist.touchedFailed
                               \/ (selector \in lhist.failedHere /\ ~blocked),
             last |-> [ok |-> ok, name |-> name, selector |-> selector,
                       url |-> url, kb |-> kb, failures |-> lhist.failures,
                       failed |-> failedSelectors, executed |-> ~blocked,
                       learned |-> ok /\ Len(failedSelectors) > 0]]
    /\ UNCHANGED <<lastUrl, currentUrl>>
    /\ UNCHANGED <<runVars, trimVars, storeVars, ctxVars, restVars>>

NextLearn == Iteration \/ SelectorCall

SpecLearn == InitLearn /\ [][NextLearn]_vars

(* C18: when a click with a selector succeeds on a URL after two earlier    *)
(* tool calls with other selectors failed on that same URL, the Knowledge   *)
(* Base entry of that URL (query string stripped) gains exactly one new     *)
(* selector, the winning one, and no entry of another URL changes.  (The    *)
(* three calls are taken in a row on that URL, the winner not yet known.)   *)
C18_LearnsWinner ==
    LET call == lhist.last
        others == SelectSeq(call.failures, LAMBDA sel : sel # call.selector)
    IN
    (call.ok /\ call.name = "click" /\ Len(others) >= 2
       /\ call.selector \notin Range(call.kb[cleanUrl(call.url)])) =>
        kb = [call.kb EXCEPT ![cleanUrl(call.url)] = Append(@, call.selector)]

(* C19: within one agent loop a selector that failed on the current URL     *)
(* stays in failedSelectors, and is rejected without touching the browser   *)
(* when requested again, until the page URL changes.                        *)
C19_FailedRemembered ==
    /\ \A sel \in lhist.failedHere : sel \in Range(failedSelectors)
    /\ ~lhist.touchedFailed

(* C19, second half: failedSelectors is emptied only at the start of an     *)
(* iteration that observes a URL different from the previous one.           *)
C19_EmptiedOnlyOnUrlChange ==
    [][(failedSelectors # <<>> /\ failedSelectors' = <<>>) =>
          (loop.at = "iteration" /\ url # lastUrl)]_vars

(* C37: a selector that is in the failed-selector set is never executed     *)
(* against the browser and never learned into the Knowledge Base: every     *)
(* selector passed to KnowledgeBase.learn was executed successfully in that *)
(* same tool call and was not in the failed set at that moment, and learn   *)
(* is called only when the failed set is non-empty.                         *)
C37_FailedNeverExecutedOrLearned ==
    LET call == lhist.last IN
    /\ call.executed => call.selector \notin Range(call.failed)
    /\ call.learned =>
        /\ call.ok /\ call.executed
        /\ call.selector \notin Range(call.failed)
        /\ call.failed # <<>>
    /\ call.name # None =>
        \A c \in CleanUrls :
            /\ Range(kb[c]) \ Range(call.kb[c]) \subseteq {call.selector}
            /\ Range(kb[c]) # Range(call.kb[c]) =>
                (call.learned /\ call.selector \notin Range(call.failed))

(* A selector was rejected after it failed, and the next call, with another *)
(* selector, worked and was learned.                                        *)
C37_Witness ==
    LET call == lhist.last IN
    /\ call.learned /\ call.selector = "B"
    /\ call.failed = <<"A">> /\ lhist.touchedFailed = FALSE
    /\ "B" \in Range(kb[cleanUrl(currentUrl)])
    /\ "B" \notin Range(call.kb[cleanUrl(currentUrl)])

(* A selector in the failed set was asked for again and was not executed. *)
C37_WitnessRejected ==
    LET call == lhist.last IN
    /\ call.name = "type_text" /\ call.selector \in Range(call.failed)
    /\ ~call.executed /\ ~call.ok /\ kb = call.kb

----------------------------------------------------------------------------
(* KnowledgeBase (src/lib/quests/KnowledgeBase.ts) called by two runs of    *)
(* one Node process.  learn reads the file, changes the parsed object and   *)
(* writes it back with synchronous file calls: a run that entered learn     *)
(* keeps the thread until learn returns.                                    *)

Runs == {"r1", "r2"}

(* The selector arguments of learn: toolInput.selector, or none. *)
KBSelectors == Selectors \cup {""}

(* KnowledgeBase.load: the parsed file (an absent file reads as {}). *)
load(file) == file

(* KnowledgeBase.getProvenSelectors on the parsed file. *)
getProvenSelectors(data, u) == data[cleanUrl(u)]

(* Mutant of suspendsInLearn: learn gives up the thread after load. *)
suspendsAfterLoad == TRUE

(* KnowledgeBase.learn holds no await between load and writeFileSync. *)
suspendsInLearn == FALSE

IdleLearner == [at |-> "idle", data |-> <<>>, url |-> <<>>, selector |-> None]

KBHist(file) ==
    [learned |-> { <<c, sel>> \in CleanUrls \X Selectors : sel \in Range(file[c]) },
     order |-> file,        \* per clean URL, the selectors in the order first learned
     runs |-> <<>>,         \* the runs whose learn calls returned, in order
     last |-> [url |-> <<>>, selector |-> None], \* the last of these calls
     again |-> FALSE,       \* it had the arguments of the call before it
     rewritten |-> FALSE,   \* a call with the arguments of the call before it changed the file
     got |-> [url |-> <<>>, inOrder |-> TRUE]] \* last getProvenSelectors

InitKB ==
    /\ kb \in KnowledgeFiles
    /\ learner = [r \in Runs |-> IdleLearner]
    /\ thread = None
    /\ kbh = KBHist(kb)
    /\ url = <<>> /\ lastUrl = <<>> /\ currentUrl = <<>>
    /\ failedSelectors = <<>> /\ loop = <<>> /\ lhist = <<>>
    /\ RunInit /\ TrimIdle /\ StoreIdle /\ CtxIdle /\ store = NoScript
    /\ abort = NotAborted /\ PairIdle /\ VerifyIdle /\ StepIdle /\ talk = NoTalk

Returned(h, r, u, selector, changed) ==
    LET c == cleanUrl(u)
        again == h.last = [url |-> c, selector |-> selector] IN
    [h EXCEPT !.runs = Append(@, r),
              !.last = [url |-> c, selector |-> selector],
              !.again = again,
              !.rewritten = @ \/ (again /\ changed),
              !.learned = IF selector = "" THEN @ ELSE @ \cup {<<c, selector>>},
              !.order = IF selector = "" \/ selector \in Range(@[c]) THEN @
                        ELSE [@ EXCEPT ![c] = Append(@, selector)]]

(* learn, up to the parsed file: if (!selector) return; data = load(). *)
LearnLoad(r) ==
    /\ thread = None
    /\ learner[r].at = "idle"
    /\ Len(kbh.runs) + Cardinality({q \in Runs : learner[q].at = "loaded"}) < MaxLearns
    /\ \E u \in Urls, selector \in KBSelectors :
        LET h == kbh IN
        IF selector = ""
        THEN /\ kbh' = Returned(h, r, u, selector, FALSE)
             /\ UNCHANGED <<learner, thread>>
        ELSE /\ learner' = [learner EXCEPT ![r] =
                               [at |-> "loaded", data |-> load(kb), url |-> u,
                                selector |-> selector]]
             /\ thread' = IF suspendsInLearn THEN None ELSE r
             /\ kbh' = h
    /\ UNCHANGED <<url, lastUrl, currentUrl, failedSelectors, kb, loop, lhist>>
    /\ UNCHANGED <<runVars, trimVars, storeVars, ctxVars, abort, pairVars,
                   verifyVars, stepVars, talk>>

(* learn, from the parsed file on: the selector is pushed and the object    *)
(* written unless the list holds it.                                        *)
LearnWrite(r) ==
    /\ learner[r].at = "loaded"
    /\ thread = IF suspendsInLearn THEN None ELSE r
    /\ LET c == learner[r]
           data == learn(c.data, c.url, c.selector) IN
        /\ kb' = IF data # c.data THEN data ELSE kb
        /\ kbh' = Returned(kbh, r, c.url, c.selector, kb' # kb)
    /\ learner' = [learner EXCEPT ![r] = IdleLearner]
    /\ thread' = None
    /\ UNCHANGED <<url, lastUrl, currentUrl, failedSelectors, loop, lhist>>
    /\ UNCHANGED <<runVars, trimVars, storeVars, ctxVars, abort, pairVars,
                   verifyVars, stepVars, talk>>

(* getProvenSelectors called by a run (synchronous as well). *)
GetProvenSelectors(r) ==
    /\ thread = None
    /\ \E u \in Urls :
        kbh' = [kbh EXCEPT !.got =
                   [url |-> u,
                    inOrder |-> getProvenSelectors(load(kb), u)
                                    = kbh.order[cleanUrl(u)]]]
    /\ UNCHANGED <<learner, thread>>
    /\ UNCHANGED <<url, lastUrl, currentUrl, failedSelectors, kb, loop, lhist>>
    /\ UNCHANGED <<runVars, trimVars, storeVars, ctxVars, abort, pairVars,
                   verifyVars, stepVars, talk>>

NextKB == \E r \in Runs : LearnLoad(r) \/ LearnWrite(r) \/ GetProvenSelectors(r)

SpecKB == InitKB /\ [][NextKB]_vars

NoDuplicates(list) ==
    \A i, j \in DOMAIN list : list[i] = list[j] => i = j

(* C24: learn is idempotent and deduplicating: no URL's selector list ever  *)
(* holds a selector twice; learn(url, s) applied twice leaves the store as  *)
(* applied once (for every url and s on the current file, and for the call  *)
(* that followed a call with the same arguments); and getProvenSelectors    *)
(* returns the selectors of a URL in the order they were first learned.     *)
C24_IdempotentLearn ==
    /\ \A c \in CleanUrls : NoDuplicates(kb[c])
    /\ \A u \in Urls, sel \in KBSelectors :
           learn(learn(load(kb), u, sel), u, sel) = learn(load(kb), u, sel)
    /\ ~kbh.rewritten
    /\ kbh.got.inOrder
    /\ thread = None => \A u \in Urls :
           getProvenSelectors(load(kb), u) = kbh.order[cleanUrl(u)]

C24_Witness ==
    /\ Len(kbh.runs) = 3 /\ kbh.again
    /\ kbh.last = [url |-> <<"u">>, selector |-> "A"]
    /\ kb[<<"u">>] = <<"B", "A">>
    /\ kbh.got.url = <<"u", "?", "q">>
    /\ getProvenSelectors(load(kb), kbh.got.url) = <<"B", "A">>

----------------------------------------------------------------------------
(* Two concurrent runs of one quest.  The /api/agent handler constructs a   *)
(* HybridQuestRunner for each request; recordedSteps and the ContextService *)
(* are fields of the instance; the script file of the quest is shared.      *)
(* Each action is the code of one run between two of its awaits: the file   *)
(* calls of ScriptManager are synchronous.                                  *)

(* Mutant of runnerOf: every request uses the runner of the first one. *)
runnerShared(r) == "r1"

(* agent.ts: const runner = new HybridQuestRunner(eventHandler, 100). *)
runnerOf(r) == r

NewRunner ==
    [pc |-> "new", existingScript |-> NoScript, next |-> 0,
     recordedSteps |-> <<>>, context |-> <<>>]

PairScripts == {NoScript} \cup {sc \in BudgetScripts : Len(sc.steps) = 1}

InitPair ==
    /\ inst = [r \in Runs |-> NewRunner]
    /\ pairh = [saves |-> <<>>,                     \* the saveScript calls, in order
                own |-> [r \in Runs |-> <<>>],      \* the steps each run pushed
                ctx |-> [r \in Runs |-> <<>>],      \* the address each run generated
                done |-> {}]                        \* the runs that ended in success
    /\ RunInit /\ TrimIdle /\ StoreIdle /\ CtxIdle /\ LearnIdle
    /\ KBIdle /\ abort = NotAborted /\ VerifyIdle /\ StepIdle /\ talk = NoTalk
    /\ store \in PairScripts

(* run(): generateDefaults, launch, ScriptManager.getScript. *)
StartRun(r) ==
    LET me == runnerOf(r) IN
    /\ r \notin pairh.done
    /\ pairh.ctx[r] = <<>>
    /\ \E e \in Emails :
        LET got == getScript(store, now) IN
        /\ inst' = [inst EXCEPT ![me] =
                       [@ EXCEPT !.pc = "running",
                                 !.existingScript = got.result,
                                 !.next = 1,
                                 !.context = e]]
        /\ store' = got.store
        /\ pairh' = [pairh EXCEPT !.ctx[r] = e]
    /\ UNCHANGED <<now, lastGet>>
    /\ UNCHANGED <<runVars, trimVars, ctxVars, learnVars, kbVars, abort,
                   verifyVars, stepVars, talk>>

(* run() / runAI: one step pushed to this.recordedSteps: the next step of   *)
(* the script read at the start, or (from the hand-off on) a tool call.     *)
PushStep(r) ==
    LET me == runnerOf(r)
        it == inst[me] IN
    /\ pairh.ctx[r] # <<>> /\ r \notin pairh.done
    /\ Len(it.recordedSteps) < MaxPairSteps
    /\ \E replay \in BOOLEAN, toolName \in ToolNames :
        LET canReplay == ~it.existingScript.none /\ it.next >= 1
                         /\ it.next <= Len(it.existingScript.steps)
            step == IF replay /\ canReplay THEN it.existingScript.steps[it.next]
                    ELSE recordedStep(toolName) IN
        /\ inst' = [inst EXCEPT ![me] =
                       [@ EXCEPT !.recordedSteps = Append(@, step),
                                 !.next = IF replay /\ canReplay THEN @ + 1 ELSE 0]]
        /\ pairh' = [pairh EXCEPT !.own[r] = Append(@, step)]
    /\ UNCHANGED <<runVars, trimVars, storeVars, ctxVars, learnVars, kbVars, abort,
                   verifyVars, stepVars, talk>>

(* run(): the success branch after the review: Final Wait, saveScript. *)
SaveRun(r) ==
    LET me == runnerOf(r)
        it == inst[me]
        steps == stepsToSave(it.recordedSteps)
        script == scriptToSave(steps, it.existingScript) IN
    /\ pairh.ctx[r] # <<>> /\ r \notin pairh.done
    /\ it.recordedSteps # <<>>
    /\ inst' = [inst EXCEPT ![me] = [@ EXCEPT !.pc = "saved",
                                              !.recordedSteps = steps]]
    /\ store' = saveScript(store, script, now)
    /\ pairh' = [pairh EXCEPT !.saves = Append(@, [run |-> r, script |-> script]),
                              !.own[r] = stepsToSave(@),
                              !.done = @ \cup {r}]
    /\ UNCHANGED <<now, lastGet>>
    /\ UNCHANGED <<runVars, trimVars, ctxVars, learnVars, kbVars, abort,
                   verifyVars, stepVars, talk>>

NextPair == \E r \in Runs : StartRun(r) \/ PushStep(r) \/ SaveRun(r)

SpecPair == InitPair /\ [][NextPair]_vars

(* C27: when two runs of one quest execute concurrently and both end in     *)
(* success, the stored script is exactly the script saved by the run that   *)
(* saved last, whose steps are that run's own recorded history (never a     *)
(* mixture of the two histories); and each run's recorded history and run   *)
(* context are what that run itself recorded and generated.                 *)
C27_LastWriteWins ==
    /\ pairh.saves # <<>> =>
        LET last == Last(pairh.saves) IN
        /\ store = last.script
        /\ store.steps = pairh.own[last.run]
    /\ \A r \in Runs :
        /\ inst[runnerOf(r)].recordedSteps = pairh.own[r]
        /\ inst[runnerOf(r)].context = pairh.ctx[r]

C27_Witness ==
    /\ pairh.done = Runs
    /\ pairh.saves[1].run = "r2" /\ pairh.saves[2].run = "r1"
    /\ pairh.own["r1"] # pairh.own["r2"]
    /\ Len(pairh.own["r2"]) = 3
    /\ inst["r1"].existingScript = inst["r2"].existingScript
    /\ store.steps = pairh.own["r1"]

----------------------------------------------------------------------------
(* Element verification (BrowserService, src/lib/services/cursor.ts and the *)
(* earlier src/lib/services/browser.ts).  Texts are sequences of            *)
(* characters; tags and identifiers are strings.                            *)

Element(tag, text, identifier) ==
    [tag |-> tag, text |-> text, identifier |-> identifier]

NoElement == Element("", <<>>, "")

(* String.prototype.toLowerCase on the letters of the model. *)
toLowerCase(text) ==
    [i \in DOMAIN text |-> IF text[i] = "P" THEN "p" ELSE text[i]]

IsSpace(c) == c = " "

Indices(text) == [i \in 1..Len(text) |-> i]

(* text.replace(/\s+/g, ' ') *)
collapseSpaces(text) ==
    LET kept == SelectSeq(Indices(text),
                    LAMBDA i : ~(IsSpace(text[i]) /\ i > 1 /\ IsSpace(text[i - 1])))
    IN [k \in 1..Len(kept) |-> text[kept[k]]]

IsAlnum(c) == c \in {"a", "b", "k", "n", "o", "p", "w", "y"}

(* extractKeywords: lower case, every character outside [a-z0-9\s] made a   *)
(* space, split at runs of spaces, words of more than 2 characters kept.    *)
extractKeywords(text) ==
    LET lower == toLowerCase(text)
        t == [i \in DOMAIN lower |->
                 IF IsAlnum(lower[i]) \/ IsSpace(lower[i]) THEN lower[i] ELSE " "]
        starts == SelectSeq(Indices(t),
                      LAMBDA i : ~IsSpace(t[i]) /\ (i = 1 \/ IsSpace(t[i - 1])))
        endOf(i) == CHOOSE j \in i..Len(t) :
                        /\ \A k \in i..j : ~IsSpace(t[k])
                        /\ (j = Len(t) \/ IsSpace(t[j + 1]))
        words == [k \in 1..Len(starts) |-> SubSeq(t, starts[k], endOf(starts[k]))]
    IN SelectSeq(words, LAMBDA w : Len(w) > 2)

formRelatedTags == {"input", "label", "span", "div", "iframe", "button"}

semanticGroups ==
    { {"button", "a", "span", "div"},
      {"li", "ul", "ol", "div", "nav"},
      {"input", "label", "span", "div", "iframe"},
      {"p", "span", "div", "label"},
      {"h1", "h2", "h3", "h4", "h5", "h6", "div", "span"},
      {"td", "tr", "th", "div"},
      {"section", "article", "div", "main"} }

tagsInSameGroup(actual, expected) ==
    \E group \in semanticGroups : actual.tag \in group /\ expected.tag \in group

(* textContained: containment of the normalised texts, either way. *)
textContained(actual, expected) ==
    LET actualTextLower == collapseSpaces(toLowerCase(actual.text))
        expectedTextLower == collapseSpaces(toLowerCase(expected.text))
    IN includes(actualTextLower, expectedTextLower)
       \/ includes(expectedTextLower, actualTextLower)

matchingKeywords(actual, expected) ==
    LET actualKeywords == extractKeywords(actual.text) IN
    SelectSeq(extractKeywords(expected.text),
        LAMBDA kw : \E i \in DOMAIN actualKeywords :
            includes(actualKeywords[i], kw) \/ includes(kw, actualKeywords[i]))

(* keywordMatchRatio >= 0.5 *)
halfKeywordsMatch(actual, expected) ==
    LET total == Len(extractKeywords(expected.text)) IN
    total > 0 /\ 2 * Len(matchingKeywords(actual, expected)) >= total

iframeRelaxation(actual, expected) ==
    /\ expected.tag = "iframe" \/ actual.tag = "iframe"
    /\ actual.tag \in formRelatedTags /\ expected.tag \in formRelatedTags

identifierMatch(actual, expected) ==
    actual.identifier # "" /\ expected.identifier # ""
        /\ actual.identifier = expected.identifier

textMatch(actual, expected) ==
    textContained(actual, expected)
        /\ Len(collapseSpaces(toLowerCase(expected.text))) > 3

semanticMatch(actual, expected) ==
    tagsInSameGroup(actual, expected) /\ halfKeywordsMatch(actual, expected)

strongTextMatch(actual, expected) ==
    halfKeywordsMatch(actual, expected) /\ Len(extractKeywords(expected.text)) >= 2

strictMatch(actual, expected) ==
    actual.tag = expected.tag
        /\ (textContained(actual, expected) \/ actual.text = expected.text)

(* The page at the coordinates: whether the service holds a page, whether   *)
(* the evaluation in getElementAtCoordinates and the one in the hierarchy   *)
(* search fail, the element under the point (if present) and the nodes      *)
(* around it (descendants, up to 3 ancestors).                              *)
Dom(pg, evalFails, hierFails, present, el, around) ==
    [page |-> pg, evalFails |-> evalFails, hierFails |-> hierFails,
     present |-> present, el |-> el, around |-> around]

Captured(threw, found, el) == [threw |-> threw, found |-> found, el |-> el]

(* Mutant of getElementAtCoordinates: the evaluation is not in a try. *)
getElementAtCoordinatesUncaught(d) ==
    IF ~d.page THEN Captured(FALSE, FALSE, NoElement)
    ELSE IF d.evalFails THEN Captured(TRUE, FALSE, NoElement)
    ELSE IF ~d.present THEN Captured(FALSE, FALSE, NoElement)
    ELSE Captured(FALSE, TRUE, d.el)

(* getElementAtCoordinates: null without a page, when the evaluation fails  *)
(* and when no element is under the point.                                  *)
getElementAtCoordinates(d) ==
    IF ~d.page THEN Captured(FALSE, FALSE, NoElement)
    ELSE IF d.evalFails THEN Captured(FALSE, FALSE, NoElement)
    ELSE IF ~d.present THEN Captured(FALSE, FALSE, NoElement)
    ELSE Captured(FALSE, TRUE, d.el)

(* A result { matches, actual, expected }, or an exception (threw). *)
Verdict(threw, matches, found, actual, expected, inHierarchy) ==
    [threw |-> threw, matches |-> matches,
     actual |-> [found |-> found, tag |-> actual.tag, text |-> actual.text,
                 inHierarchy |-> inHierarchy],
     expected |-> [tag |-> expected.tag, text |-> expected.text]]

(* verifyElementAtCoordinates (cursor.ts) *)
verifyElementAtCoordinates(d, expected) ==
    LET got == getElementAtCoordinates(d)
        actual == got.el IN
    IF got.threw THEN Verdict(TRUE, FALSE, FALSE, NoElement, expected, FALSE)
    ELSE IF ~got.found THEN Verdict(FALSE, FALSE, FALSE, NoElement, expected, FALSE)
    ELSE IF iframeRelaxation(actual, expected)
         THEN Verdict(FALSE, TRUE, TRUE, actual, expected, FALSE)
    ELSE IF identifierMatch(actual, expected)
         THEN Verdict(FALSE, TRUE, TRUE, actual, expected, FALSE)
    ELSE IF textMatch(actual, expected)
         THEN Verdict(FALSE, TRUE, TRUE, actual, expected, FALSE)
    ELSE Verdict(FALSE,
                 strictMatch(actual, expected) \/ semanticMatch(actual, expected)
                     \/ strongTextMatch(actual, expected),
                 TRUE, actual, expected, FALSE)

(* verifyElementAtCoordinates (browser.ts, the earlier variant) *)
verifyElementAtCoordinatesEarlier(d, expected) ==
    LET got == getElementAtCoordinates(d)
        actual == got.el
        actualTextLower == toLowerCase(actual.text)
        expectedTextLower == toLowerCase(expected.text)
        textMatches == \/ includes(actualTextLower, expectedTextLower)
                       \/ includes(expectedTextLower, actualTextLower)
                       \/ actual.text = expected.text
    IN
    IF got.threw THEN Verdict(TRUE, FALSE, FALSE, NoElement, expected, FALSE)
    ELSE IF ~got.found THEN Verdict(FALSE, FALSE, FALSE, NoElement, expected, FALSE)
    ELSE Verdict(FALSE,
                 actual.tag = expected.tag
                     /\ (textMatches \/ actual.identifier = expected.identifier),
                 TRUE, actual, expected, FALSE)

(* checkElement of the hierarchy search. *)
checkElement(node, expected) ==
    node.tag = expected.tag
        /\ includes(toLowerCase(node.text), toLowerCase(expected.text))

(* verifyElementAtCoordinatesWithFallback *)
verifyElementAtCoordinatesWithFallback(d, expected) ==
    LET directResult == verifyElementAtCoordinates(d, expected)
        foundInHierarchy ==
            /\ d.present
            /\ \/ checkElement(d.el, expected)
               \/ \E i \in DOMAIN d.around : checkElement(d.around[i], expected)
    IN
    IF directResult.threw \/ directResult.matches THEN directResult
    ELSE IF ~d.page THEN directResult
    ELSE IF d.hierFails THEN directResult
    ELSE IF foundInHierarchy
         THEN [directResult EXCEPT !.matches = TRUE, !.actual.inHierarchy = TRUE]
    ELSE directResult

(* The inputs of the model. *)
Tags == {"button", "span", "iframe", "li", "img"}

Texts ==
    { <<"o", "k">>,
      <<"b", "o", "o", "k">>,
      <<"p", "a", "y">>,
      <<"p", "a", "y", " ", "n", "o", "w">>,
      <<"P", "a", "y", " ", " ", "n", "o", "w">>,
      <<"n", "o", "w", "-", "p", "a", "y">> }

ExpectedElements ==
    { Element(tag, text, identifier) :
        tag \in {"button", "iframe", "img"}, text \in Texts,
        identifier \in {"", "#a"} }

ActualElements ==
    { Element(tag, text, identifier) :
        tag \in Tags, text \in Texts, identifier \in {"#a", "#b"} }

Surroundings ==
    { <<>>, <<[tag |-> "button", text |-> <<"p", "a", "y", " ", "n", "o", "w">>]>> }

Doms ==
    { Dom(FALSE, FALSE, FALSE, FALSE, NoElement, <<>>) }
    \cup { Dom(TRUE, evalFails, hierFails, FALSE, NoElement, <<>>) :
             evalFails \in BOOLEAN, hierFails \in BOOLEAN }
    \cup { Dom(TRUE, evalFails, hierFails, TRUE, el, around) :
             evalFails \in BOOLEAN, hierFails \in BOOLEAN,
             el \in ActualElements, around \in Surroundings }

NoChecks == [direct |-> <<>>, fallback |-> <<>>, earlier |-> <<>>]

InitVerify ==
    /\ dom \in Doms
    /\ expectedEl \in ExpectedElements
    /\ checks = NoChecks
    /\ RunInit /\ TrimIdle /\ StoreIdle /\ CtxIdle /\ LearnIdle
    /\ KBIdle /\ abort = NotAborted /\ PairIdle /\ StepIdle /\ talk = NoTalk
    /\ store = NoScript

AllChecks == checks.direct \o checks.fallback \o checks.earlier

(* Mutant of VerifyDirect: the call scrolls the element away. *)
VerifyDirectMoving ==
    /\ Len(AllChecks) < MaxChecks
    /\ checks' = [checks EXCEPT !.direct =
                     Append(@, verifyElementAtCoordinates(dom, expectedEl))]
    /\ dom' = [dom EXCEPT !.present = FALSE]
    /\ UNCHANGED expectedEl
    /\ UNCHANGED <<runVars, trimVars, storeVars, ctxVars, learnVars, kbVars,
                   abort, pairVars, stepVars, talk>>

(* A call of verifyElementAtCoordinates: the page is read, not changed. *)
VerifyDirect ==
    /\ Len(AllChecks) < MaxChecks
    /\ checks' = [checks EXCEPT !.direct =
                     Append(@, verifyElementAtCoordinates(dom, expectedEl))]
    /\ UNCHANGED <<dom, expectedEl>>
    /\ UNCHANGED <<runVars, trimVars, storeVars, ctxVars, learnVars, kbVars,
                   abort, pairVars, stepVars, talk>>

VerifyWithFallback ==
    /\ Len(AllChecks) < MaxChecks
    /\ checks' = [checks EXCEPT !.fallback =
                     Append(@, verifyElementAtCoordinatesWithFallback(dom, expectedEl))]
    /\ UNCHANGED <<dom, expectedEl>>
    /\ UNCHANGED <<runVars, trimVars, storeVars, ctxVars, learnVars, kbVars,
                   abort, pairVars, stepVars, talk>>

VerifyEarlier ==
    /\ Len(AllChecks) < MaxChecks
    /\ checks' = [checks EXCEPT !.earlier =
                     Append(@, verifyElementAtCoordinatesEarlier(dom, expectedEl))]
    /\ UNCHANGED <<dom, expectedEl>>
    /\ UNCHANGED <<runVars, trimVars, storeVars, ctxVars, learnVars, kbVars,
                   abort, pairVars, stepVars, talk>>

(* The page changes: a popup covers the point or uncovers it. *)
PageChange ==
    /\ dom.page /\ dom.el # NoElement
    /\ dom' = [dom EXCEPT !.present = ~@]
    /\ checks' = NoChecks
    /\ UNCHANGED expectedEl
    /\ UNCHANGED <<runVars, trimVars, storeVars, ctxVars, learnVars, kbVars,
                   abort, pairVars, stepVars, talk>>

NextVerify ==
    VerifyDirect \/ VerifyWithFallback \/ VerifyEarlier \/ PageChange

SpecVerify == InitVerify /\ [][NextVerify]_vars

FiveStrategies(actual, expected) ==
    \/ identifierMatch(actual, expected)
    \/ textMatch(actual, expected)
    \/ iframeRelaxation(actual, expected)
    \/ tagsInSameGroup(actual, expected) /\ halfKeywordsMatch(actual, expected)
    \/ halfKeywordsMatch(actual, expected)

(* C29: verifyElementAtCoordinates reports a match only if at least one of  *)
(* the five listed strategies holds; in every other case a mismatch.        *)
C29_OnlyFiveStrategies ==
    \A i \in DOMAIN checks.direct :
        checks.direct[i].matches =>
            (checks.direct[i].actual.found /\ FiveStrategies(dom.el, expectedEl))

C30_WitnessEarlier ==
    /\ Len(checks.earlier) = 2
    /\ ~checks.earlier[1].matches /\ ~checks.earlier[2].matches
    /\ dom.present /\ ~dom.evalFails

----------------------------------------------------------------------------
(* executeStep called by the replay loop for one stored step: the call of   *)
(* run() and, after a failure, the call executeStep makes of itself.  Each  *)
(* call is kept with what the page did in it and what it returned.          *)

(* The stored steps executeStep is called for: clicks of both kinds with    *)
(* every recorded expectedChange (None: the field is absent), with or       *)
(* without expectedElement and validation, and a navigate step.  For a      *)
(* click step executeStep hands no expectedElement to executeScriptClick.   *)
ReplaySteps ==
    { ScriptStep([type |-> t, expectedChange |-> c, expectedElement |-> e,
                  validation |-> v], 1) :
        t \in {"click", "click_at_coordinates"},
        c \in ChangeTypes \cup {None},
        e \in BOOLEAN, v \in BOOLEAN }
    \cup { ScriptStep([type |-> "navigate", expectedChange |-> None,
                       expectedElement |-> FALSE, validation |-> TRUE], 1) }

InitStep ==
    /\ stepIn \in { st \in ReplaySteps : st.type = "click" => ~st.expectedElement }
    /\ calls = <<>>
    /\ RunInit /\ TrimIdle /\ StoreIdle /\ CtxIdle /\ LearnIdle
    /\ KBIdle /\ abort = NotAborted /\ PairIdle /\ VerifyIdle /\ talk = NoTalk
    /\ store = NoScript

(* One call of executeStep: the first one, or the retry after a failed call *)
(* whose wait before the retry did not raise.                               *)
ExecuteStepCall ==
    /\ \/ calls = <<>>
       \/ /\ calls # <<>>
          /\ ~Last(calls).ok /\ retry(Len(calls)) /\ ~Last(calls).escaped
    /\ \E throws, verified, nav2, valid, crash \in BOOLEAN,
          actualChange \in ChangeTypes :
        LET r == executeStepOnce(stepIn, throws, verified, actualChange, nav2, valid)
        IN calls' = Append(calls,
                      [throws |-> throws, verified |-> verified,
                       actualChange |-> actualChange, nav2 |-> nav2,
                       valid |-> valid, ok |-> r.ok, clicks |-> r.clicks,
                       escaped |-> ~r.ok /\ retry(Len(calls) + 1) /\ crash])
    /\ UNCHANGED stepIn
    /\ UNCHANGED <<runVars, trimVars, storeVars, ctxVars, learnVars, kbVars,
                   abort, pairVars, verifyVars, talk>>

NextStep == ExecuteStepCall

SpecStep == InitStep /\ [][NextStep]_vars

(* C32: during replay, a click step whose recorded expectedChange is dom or *)
(* none (or absent) never fails because of the change that was actually     *)
(* observed: a call in which the click was issued and the post-condition    *)
(* (if any) held succeeds, whatever change was detected; only               *)
(* expectedChange = url can turn a completed click into a step failure.     *)
C32_OnlyUrlIsValidated ==
    \A i \in DOMAIN calls :
        (IsClick(stepIn.type) /\ calls[i].clicks > 0 /\ ~calls[i].ok
           /\ (stepIn.validation => calls[i].valid)) =>
            stepIn.expectedChange = "url"

(* A click recorded with a dom change changed nothing on replay, and a      *)
(* click with no recorded change moved the page: both calls succeeded.      *)
C32_Witness ==
    /\ stepIn.type = "click" /\ stepIn.expectedChange = "dom"
    /\ Len(calls) = 1 /\ calls[1].actualChange = "none"
    /\ calls[1].clicks = 1 /\ calls[1].ok

C32_WitnessAbsent ==
    /\ stepIn.type = "click_at_coordinates" /\ stepIn.expectedChange = None
    /\ Len(calls) = 1 /\ calls[1].actualChange = "url"
    /\ calls[1].clicks = 1 /\ calls[1].ok

(* The click actions issued for the step in all its calls. *)
TotalClicks ==
    IF calls = <<>> THEN 0
    ELSE IF Len(calls) = 1 THEN calls[1].clicks
    ELSE IF Len(calls) = 2 THEN calls[1].clicks + calls[2].clicks
    ELSE calls[1].clicks + calls[2].clicks + calls[3].clicks

(* C40: during replay of one click or click_at_coordinates script step, the *)
(* browser click action is issued at most twice in total, counting the      *)
(* step-level automatic retry and the expected-URL-change click retry       *)
(* together.                                                                *)
C40_AtMostTwoClicks == IsClick(stepIn.type) => TotalClicks <= 2

(* C40, as the code has it: at most two clicks in each call of executeStep, *)
(* the second one only for a recorded url change, and at most two calls:    *)
(* four clicks at most.                                                     *)
C40_AtMostFourClicks ==
    /\ IsClick(stepIn.type) => TotalClicks <= 4
    /\ Len(calls) <= 2
    /\ \A i \in DOMAIN calls :
        /\ calls[i].clicks <= 2
        /\ calls[i].clicks = 2 => stepIn.expectedChange = "url"

(* Both calls clicked twice and the URL never changed. *)
C40_Witness ==
    /\ stepIn.type = "click" /\ stepIn.expectedChange = "url"
    /\ Len(calls) = 2 /\ TotalClicks = 4
    /\ ~calls[1].ok /\ ~calls[2].ok

----------------------------------------------------------------------------
(* The body of the for loop of runAI, from one suspension to the next: the  *)
(* start of the iteration up to the model's answer (Invoke), each tool call *)
(* (RunTool), and the end of the turn (CloseTurn).  talk holds the locals:  *)
(* the position, the iterations started, the tool_use blocks not yet        *)
(* executed, toolResults, consecutiveWaitCount, and as history the name of  *)
(* the last tool of the last tool-result turn appended (lastTool) and of    *)
(* the last one in the list that was sent (sentLastTool).                   *)

(* toolChangesPage *)
toolChangesPage(toolName) ==
    toolName \in {"navigate", "click", "click_at_coordinates", "type_text",
                  "scroll", "press_key"}

(* The tools of the simulated agent, and how a call of each can end: it     *)
(* completes, the browser action raises, or (click, type_text) the selector *)
(* is rejected as one that already failed.                                  *)
TurnTools == {"click", "wait"}

ToolOutcomes(toolName) ==
    IF toolName \in {"click", "type_text"} THEN {"ok", "raised", "rejected"}
    ELSE {"ok"}

(* Mutant of pushResult: a rejected tool call gets no result. *)
pushResultUnlessRejected(results, toolUse, outcome) ==
    IF outcome = "rejected" THEN results
    ELSE Append(results,
                [tool_use_id |-> toolUse.id,
                 resultText |-> IF outcome = "ok" THEN "Success" ELSE "Error",
                 toolName |-> toolUse.name, outcome |-> outcome])

(* runAI: toolResults.push({ tool_use_id, resultText, toolName }) after the *)
(* try / catch of a tool call; the catch leaves an Error text.              *)
pushResult(results, toolUse, outcome) ==
    Append(results,
           [tool_use_id |-> toolUse.id,
            resultText |-> IF outcome = "ok" THEN "Success" ELSE "Error",
            toolName |-> toolUse.name, outcome |-> outcome])

(* runAI: the user turn built from toolResults: one tool_result block for   *)
(* each entry, with an image block in the last one if a screenshot was      *)
(* captured and its tool changes the page.                                  *)
ResultsTurn(results, screenshot) ==
    [ToolResultTurn([i \in 1..Len(results) |-> results[i].tool_use_id])
       EXCEPT !.images = { idx \in 1..Len(results) :
                             /\ idx = Len(results) /\ screenshot
                             /\ toolChangesPage(results[idx].toolName) }]

(* Mutant of pruneScreenshots: nothing is pruned. *)
pruneScreenshotsNever(msgs) == msgs

(* runAI: the pruning loop at the start of an iteration (j < length - 1):   *)
(* the image blocks of every turn but the last become text blocks.          *)
pruneScreenshots(msgs) ==
    [j \in 1..Len(msgs) |->
        IF j < Len(msgs) THEN [msgs[j] EXCEPT !.images = {}] ELSE msgs[j]]

InitTalk ==
    /\ TrimInit
    /\ talk = [NoTalk EXCEPT !.at = "invoke"]
    /\ RunInit /\ StoreIdle /\ CtxIdle /\ LearnIdle
    /\ KBIdle /\ abort = NotAborted /\ PairIdle /\ VerifyIdle /\ StepIdle
    /\ store = NoScript

(* The start of an iteration up to the model's answer: pruning, the system  *)
(* notes, trimMessageHistory, invokeModel (which can throw), the answer     *)
(* pushed; an answer without tool_use ends the loop.                        *)
Invoke ==
    /\ talk.at = "invoke"
    /\ talk.i < MaxIterations
    /\ \E notes \in 0..2, n \in 0..MaxTools, throws \in BOOLEAN :
       \E names \in [1..n -> TurnTools] :
        LET sent == pruneScreenshots(messages) \o [i \in 1..notes |-> SystemNote]
            ids == [i \in 1..n |-> nextId + i - 1]
            uses == [i \in 1..n |-> [id |-> ids[i], name |-> names[i]]]
            t == [talk EXCEPT !.i = @ + 1, !.results = <<>>,
                              !.sentLastTool = talk.lastTool]
        IN
        /\ trimmed' = trimMessageHistory(sent)
        /\ IF throws
           THEN /\ messages' = sent
                /\ nextId' = nextId
                /\ talk' = [t EXCEPT !.at = "done", !.uses = <<>>]
           ELSE /\ messages' = Append(sent, AssistantTurn(ids))
                /\ nextId' = nextId + n
                /\ talk' = [t EXCEPT !.at = IF n = 0 THEN "done" ELSE "tools",
                                     !.uses = uses]
    /\ UNCHANGED <<runVars, storeVars, ctxVars, learnVars, kbVars, abort,
                   pairVars, verifyVars, stepVars>>

(* One tool call of the turn: its try / catch, the result pushed, the      *)
(* consecutive-wait counter.                                                *)
RunTool ==
    /\ talk.at = "tools"
    /\ LET toolUse == Head(talk.uses) IN
       \E outcome \in ToolOutcomes(toolUse.name) :
        talk' = [talk EXCEPT !.results = pushResult(@, toolUse, outcome),
                             !.waits = countWait(@, toolUse.name),
                             !.uses = Tail(@),
                             !.at = IF Len(talk.uses) = 1 THEN "close" ELSE "tools"]
    /\ UNCHANGED <<runVars, trimVars, storeVars, ctxVars, learnVars, kbVars,
                   abort, pairVars, verifyVars, stepVars>>

(* The end of the turn: the stuck failsafe throws, or the batched           *)
(* screenshot is captured (null when it fails) and the tool results are     *)
(* pushed as one user turn.                                                 *)
CloseTurn ==
    /\ talk.at = "close"
    /\ IF stuck(talk.waits)
       THEN /\ talk' = [talk EXCEPT !.at = "done"]
            /\ UNCHANGED messages
       ELSE \E screenshot \in BOOLEAN :
            /\ messages' = Append(messages, ResultsTurn(talk.results, screenshot))
            /\ talk' = [talk EXCEPT !.at = "invoke",
                                    !.lastTool = IF talk.results = <<>> THEN None
                                                 ELSE Last(talk.results).toolName]
    /\ UNCHANGED <<trimmed, nextId>>
    /\ UNCHANGED <<runVars, storeVars, ctxVars, learnVars, kbVars, abort,
                   pairVars, verifyVars, stepVars>>

NextTalk == Invoke \/ RunTool \/ CloseTurn

SpecTalk == InitTalk /\ [][NextTalk]_vars

(* The tool-result turns of the list handed to the model. *)
SentResultTurns == { k \in DOMAIN trimmed : hasToolResult(trimmed[k]) }

(* C35: at every LLM invocation of the agent loop, image blocks occur in at *)
(* most one conversation turn, the most recent tool-result turn, and that   *)
(* turn holds at most one image, attached to its last tool result and only  *)
(* if that last tool is a page-changing tool.                               *)
C35_OneScreenshot ==
    \A k \in DOMAIN trimmed :
        trimmed[k].images # {} =>
            /\ k \in SentResultTurns
            /\ \A j \in SentResultTurns : j <= k
            /\ trimmed[k].images = {Len(trimmed[k].toolResult)}
            /\ toolChangesPage(talk.sentLastTool)

(* The list sent holds two tool-result turns; the last one, of two tool     *)
(* calls and followed by a system note, has the only image.                 *)
C35_Witness ==
    /\ Cardinality(SentResultTurns) = 2
    /\ \E k \in SentResultTurns :
        /\ trimmed[k].images = {2}
        /\ k < Len(trimmed)

(* A screenshot was captured after a turn that ended in a wait: the list    *)
(* sent next holds no image.                                                *)
C35_WitnessNoImage ==
    /\ talk.sentLastTool = "wait" /\ talk.at = "tools"
    /\ SentResultTurns # {}
    /\ \A k \in DOMAIN trimmed : trimmed[k].images = {}

(* C36: in the agent loop, every assistant turn that contains tool_use      *)
(* blocks and does not trigger stuck detection is followed, as the next     *)
(* appended turn, by exactly one user turn holding exactly one tool_result  *)
(* per tool_use, with the same ids in the same order, also for tool calls   *)
(* that raised an error or were rejected.                                   *)
C36_ResultForEveryToolUse ==
    \A k \in DOMAIN messages :
        (messages[k].role = "assistant" /\ messages[k].toolUse # <<>>) =>
            IF k < Len(messages)
            THEN /\ messages[k + 1].role = "user"
                 /\ messages[k + 1].toolResult = messages[k].toolUse
                 /\ k + 2 <= Len(messages) => ~hasToolResult(messages[k + 2])
            ELSE \/ talk.at \in {"tools", "close"}
                 \/ talk.at = "done" /\ stuck(talk.waits)

(* The turn of a rejected and a raising tool call got its two results. *)
C36_Witness ==
    /\ talk.at = "invoke" /\ Len(talk.results) = 2
    /\ talk.results[1].outcome = "rejected" /\ talk.results[2].outcome = "raised"
    /\ hasToolResult(Last(messages))
    /\ Last(messages).toolResult = messages[Len(messages) - 1].toolUse
    /\ Len(Last(messages).toolResult) = 2

(* Stuck detection fired: the last assistant turn has no tool-result turn. *)
C36_WitnessStuck ==
    /\ talk.at = "done" /\ stuck(talk.waits)
    /\ Last(messages).role = "assistant" /\ Last(messages).toolUse # <<>>

====
